---- MODULE Spec2Model ----
(***************************************************************************)
(* Model of libsignal's message-backup validator (PartialBackup<M>), with  *)
(* a Store validator and a ValidateOnly validator fed the same frames, of  *)
(* the enclave connection driver, of the server-push demultiplexer, of the *)
(* DNS-over-HTTPS transport and of the Purpose enumeration.  Each has its  *)
(* own specification; the variables of the others stay Idle in it.         *)
(***************************************************************************)
EXTENDS Integers, Sequences, FiniteSets, TLC

\* ---------------------------------------------------------------- bounds
\* Number of add_frame calls made on a validator in one run.
MaxFrames == 4
\* Number of add_frame calls made after the test fixture in one run.
MaxFixtureFrames == 3
\* Recipient, chat and call ids are drawn from 1..MaxId.
MaxId == 2

\* Byte length of a sticker pack id (StickerPackId is a [u8; 16]).
PackIdLen == 16

Ids == 1 .. MaxId

\* The two Method implementations.
Modes == {"Store", "ValidateOnly"}

VARIABLES
    pb,        \* pb[M]: the PartialBackup<M> of each mode
    frame,     \* the frame passed to the last add_frame call
    handler,   \* handler[M]: the per-kind handler the last call dispatched to
    result,    \* result[M]: what the last add_frame call returned in mode M
    arrival,   \* number of add_frame calls made so far
    accepted,  \* accepted[c]: arrival numbers of the accepted ChatItem frames of chat c
    nAccount,  \* nAccount[M]: number of AccountData frames accepted in mode M
    limit,     \* number of frames the producer feeds in this run
    refused,   \* refused[c]: the recipient of the Chat frame of id c that was rejected
               \* for its missing recipient, while c is still no chat (where tracked)
    net,       \* the enclave connection: manager, clock and the last connect call
    push,      \* the server-push demultiplexer: channel, stream output, responses
    doh,       \* the DNS-over-HTTPS transport: the queries of one lookup
    pur        \* the Purpose conversions: the last input and its result

vars == <<pb, frame, handler, result, arrival, accepted, nAccount, limit, refused, net, push, doh, pur>>

\* The value of a variable whose component takes no part in a specification.
Idle == "idle"

\* ------------------------------------------------------- Method (M::Map)
\* M::Map<K, V>::default(): a HashMap for Store, a HashSet of keys for ValidateOnly.
MapDefault(M) == IF M = "Store" THEN <<>> ELSE {}

\* The keys held by an M::Map.
MapKeys(M, map) == IF M = "Store" THEN DOMAIN map ELSE map

\* Contains<K>::contains
MapContains(M, map, key) == key \in MapKeys(M, map)

\* A variant of Map::insert whose ValidateOnly set never reports KeyExists.
MapInsertNoKeyExists(M, map, key, value) ==
    IF M = "Store"
    THEN IF key \in DOMAIN map
         THEN [err |-> TRUE, map |-> map]
         ELSE [err |-> FALSE,
               map |-> [k \in DOMAIN map \cup {key} |-> IF k = key THEN value ELSE map[k]]]
    ELSE [err |-> FALSE, map |-> map \cup {key}]

\* Map::insert: Err(KeyExists), map untouched, when the key is present.
MapInsert(M, map, key, value) ==
    IF MapContains(M, map, key)
    THEN [err |-> TRUE, map |-> map]
    ELSE [err |-> FALSE,
          map |-> IF M = "Store"
                  THEN [k \in DOMAIN map \cup {key} |-> IF k = key THEN value ELSE map[k]]
                  ELSE map \cup {key}]

\* Option<T>: None is the empty tuple, Some(v) the tuple holding v.
None == <<>>
Some(v) == <<v>>

\* M::value: Store keeps the value, ValidateOnly keeps the unit.
MValue(M, v) == IF M = "Store" THEN v ELSE "unit"

\* M::List::default() of ChatData.items.
ListDefault(M) == IF M = "Store" THEN <<>> ELSE "unit"

\* Extend::extend on M::List: Store appends, ValidateOnly drops the items.
ListExtend(M, list, xs) == IF M = "Store" THEN list \o xs ELSE list

\* A variant of the HashMap insertion that keeps no other entry.
HashInsert_Only(map, key, value) == [k \in {key} |-> value]

\* HashMap entry insertion (chats and sticker_packs are HashMaps in both modes).
HashInsert(map, key, value) ==
    [k \in DOMAIN map \cup {key} |-> IF k = key THEN value ELSE map[k]]

\* ------------------------------------------------------------ the errors
Ok == [tag |-> "Ok"]
EmptyFrame == [tag |-> "EmptyFrame"]
MultipleAccountData == [tag |-> "MultipleAccountData"]
AccountDataErr == [tag |-> "AccountData", e |-> "AccountDataError"]
RecipientFrameError(id, e) == [tag |-> "RecipientError", recipient |-> id, e |-> e]
ChatFrameError(id, e) == [tag |-> "ChatError", chat |-> id, e |-> e]
CallFrameError(id, e) == [tag |-> "CallError", call |-> id, e |-> e]
StickerInvalidId == [tag |-> "StickerError", e |-> "InvalidId"]
StickerDuplicateId(id) == [tag |-> "StickerError", e |-> "DuplicateId", pack |-> id]
StickerPackError(id, e) == [tag |-> "StickerError", e |-> "PackError", pack |-> id, inner |-> e]

\* ------------------------------------------------------------ the frames
\* A pack id of n bytes, each byte b.
Bytes(n, b) == [i \in 1 .. n |-> b]

\* Two well-formed pack ids, one too short and one too long.
PackIds == {Bytes(PackIdLen, 0), Bytes(PackIdLen, 1), Bytes(PackIdLen - 1, 0), Bytes(PackIdLen + 1, 0)}

EmptyFrames == {[kind |-> "Empty"]}
AccountFrames == {[kind |-> "Account", ok |-> ok] : ok \in BOOLEAN}
RecipientFrames == {[kind |-> "Recipient", id |-> i, ok |-> ok] : i \in Ids, ok \in BOOLEAN}
ChatFrames == {[kind |-> "Chat", id |-> i, recipientId |-> r] : i \in Ids, r \in Ids}
ChatItemFrames(n) ==
    {[kind |-> "ChatItem", chatId |-> c, authorId |-> a, call |-> k, ok |-> ok, sent |-> n] :
        c \in Ids, a \in Ids, k \in {None} \cup {Some(i) : i \in Ids}, ok \in BOOLEAN}
StickerPackFrames == {[kind |-> "StickerPack", packId |-> p, ok |-> ok] : p \in PackIds, ok \in BOOLEAN}

\* ----------------------------------------------------------- conversions
\* AccountData::try_from(proto::AccountData)
ConvertAccountData(M, f) ==
    IF f.ok THEN [err |-> "none", value |-> "account"]
    ELSE [err |-> "AccountDataError"]

\* RecipientData::try_from(proto::Recipient)
ConvertRecipient(M, f) ==
    IF f.ok THEN [err |-> "none", value |-> [id |-> f.id]]
    ELSE [err |-> "InvalidRecipient"]

\* ChatData::try_from_with(proto::Chat, &recipients)
ConvertChat(M, f, recipients) ==
    IF ~MapContains(M, recipients, f.recipientId) THEN [err |-> "NoRecipient"]
    ELSE [err |-> "none", value |-> [recipient |-> f.recipientId, items |-> ListDefault(M)]]

\* A variant of the ChatItem conversion that does not look the author up.
ConvertChatItem_AnyAuthor(M, f, ctx) ==
    IF ~f.ok THEN [err |-> "InvalidChatItem"]
    ELSE [err |-> "none",
          item |-> [author |-> f.authorId, sent |-> f.sent],
          call |-> IF f.call = None THEN None ELSE Some([id |-> f.call[1]])]

\* MaybeWithCall<ChatItemData>::try_from_with(proto::ChatItem, &ConvertContext)
ConvertChatItem(M, f, ctx) ==
    IF ~MapContains(M, ctx.recipients, f.authorId) THEN [err |-> "AuthorNotFound"]
    ELSE IF ~f.ok THEN [err |-> "InvalidChatItem"]
    ELSE [err |-> "none",
          item |-> [author |-> f.authorId, sent |-> f.sent],
          call |-> IF f.call = None THEN None ELSE Some([id |-> f.call[1]])]

\* PackId::try_from(&[u8])
ConvertPackId(bytes) ==
    IF Len(bytes) = PackIdLen THEN [err |-> FALSE, id |-> bytes] ELSE [err |-> TRUE]

\* StickerPack::try_from(proto::StickerPack)
ConvertStickerPack(f) ==
    IF f.ok THEN [err |-> "none", value |-> "pack"] ELSE [err |-> "InvalidPack"]

\* ------------------------------------------------------- PartialBackup<M>
\* PartialBackup::new
new(M, purpose) ==
    [meta |-> [version |-> 0, backup_time |-> 0, purpose |-> purpose],
     account_data |-> None,
     recipients |-> MapDefault(M),
     chats |-> <<>>,
     calls |-> MapDefault(M),
     sticker_packs |-> <<>>]

\* Every handler yields the value returned (res) and the validator afterwards (st).
Ret(res, st) == [res |-> res, st |-> st]

\* A variant of add_account_data without the is_some check: a later frame
\* replaces the account data.
add_account_data_NoCheck(M, self, f) ==
    LET c == ConvertAccountData(M, f) IN
    IF c.err # "none" THEN Ret(AccountDataErr, self)
    ELSE Ret(Ok, [self EXCEPT !.account_data = Some(MValue(M, c.value))])

\* add_account_data: MultipleAccountData when the slot is taken, else convert and store.
add_account_data(M, self, f) ==
    IF self.account_data # None THEN Ret(MultipleAccountData, self)
    ELSE LET c == ConvertAccountData(M, f) IN
         IF c.err # "none" THEN Ret(AccountDataErr, self)
         ELSE Ret(Ok, [self EXCEPT !.account_data = Some(MValue(M, c.value))])

\* A variant of add_recipient that looks the id up before it converts.
add_recipient_DuplicateFirst(M, self, f) ==
    LET id == f.id IN
    IF MapContains(M, self.recipients, id)
    THEN Ret(RecipientFrameError(id, "DuplicateRecipient"), self)
    ELSE LET c == ConvertRecipient(M, f) IN
         IF c.err # "none" THEN Ret(RecipientFrameError(id, c.err), self)
         ELSE Ret(Ok, [self EXCEPT !.recipients = MapInsert(M, self.recipients, id, c.value).map])

\* add_recipient: convert, then insert into the recipient map.
add_recipient(M, self, f) ==
    LET id == f.id
        c == ConvertRecipient(M, f)
    IN  IF c.err # "none" THEN Ret(RecipientFrameError(id, c.err), self)
        ELSE LET ins == MapInsert(M, self.recipients, id, c.value)
                 after == [self EXCEPT !.recipients = ins.map]
             IN  IF ins.err THEN Ret(RecipientFrameError(id, "DuplicateRecipient"), after)
                 ELSE Ret(Ok, after)

\* A variant of add_chat that keeps the chat it refuses for its missing
\* recipient, to be resolved when the recipient arrives.
add_chat_KeepRefused(M, self, f) ==
    LET id == f.id
        c == ConvertChat(M, f, self.recipients)
    IN  IF id \in DOMAIN self.chats THEN Ret(ChatFrameError(id, "DuplicateId"), self)
        ELSE IF c.err # "none"
        THEN Ret(ChatFrameError(id, c.err),
                 [self EXCEPT !.chats = HashInsert(self.chats, id,
                     [recipient |-> f.recipientId, items |-> ListDefault(M)])])
        ELSE Ret(Ok, [self EXCEPT !.chats = HashInsert(self.chats, id, c.value)])

\* A variant of add_chat that stores the chat with HashMap::insert, replacing
\* the chat it then reports as a duplicate.
add_chat_Overwrite(M, self, f) ==
    LET id == f.id
        c == ConvertChat(M, f, self.recipients)
    IN  IF c.err # "none" THEN Ret(ChatFrameError(id, c.err), self)
        ELSE LET after == [self EXCEPT !.chats = HashInsert(self.chats, id, c.value)] IN
             IF id \in DOMAIN self.chats THEN Ret(ChatFrameError(id, "DuplicateId"), after)
             ELSE Ret(Ok, after)

\* A variant of add_chat that does not look the recipient up.
add_chat_NoForeignKey(M, self, f) ==
    LET id == f.id IN
    IF id \in DOMAIN self.chats THEN Ret(ChatFrameError(id, "DuplicateId"), self)
    ELSE Ret(Ok, [self EXCEPT !.chats = HashInsert(self.chats, id,
                     [recipient |-> f.recipientId, items |-> ListDefault(M)])])

\* add_chat: convert against the recipients, then insert unless the id is taken.
add_chat(M, self, f) ==
    LET id == f.id
        c == ConvertChat(M, f, self.recipients)
    IN  IF c.err # "none" THEN Ret(ChatFrameError(id, c.err), self)
        ELSE IF id \in DOMAIN self.chats THEN Ret(ChatFrameError(id, "DuplicateId"), self)
        ELSE Ret(Ok, [self EXCEPT !.chats = HashInsert(self.chats, id, c.value)])

\* A variant of add_chat_item that appends the item before it inserts the call.
add_chat_item_AppendFirst(M, self, f) ==
    LET chat_id == f.chatId IN
    IF chat_id \notin DOMAIN self.chats
    THEN Ret(ChatFrameError(chat_id, "NoChatForItem"), self)
    ELSE
      LET c == ConvertChatItem(M, f, [recipients |-> self.recipients,
                                      calls |-> self.calls,
                                      meta |-> self.meta])
      IN  IF c.err # "none" THEN Ret(ChatFrameError(chat_id, c.err), self)
          ELSE
            LET appended == [self EXCEPT
                               !.chats[chat_id].items = ListExtend(M, @, <<c.item>>)]
                ins == IF c.call = None
                       THEN [err |-> FALSE, map |-> self.calls]
                       ELSE MapInsert(M, self.calls, c.call[1].id, c.call[1])
                after == [appended EXCEPT !.calls = ins.map]
            IN  IF ins.err THEN Ret(CallFrameError(c.call[1].id, "DuplicateId"), after)
                ELSE Ret(Ok, after)

\* A variant of add_chat_item that creates the chat of an item whose chat is missing.
add_chat_item_CreateChat(M, self, f) ==
    LET chat_id == f.chatId
        found == IF chat_id \in DOMAIN self.chats THEN self
                 ELSE [self EXCEPT !.chats = HashInsert(self.chats, chat_id,
                          [recipient |-> f.authorId, items |-> ListDefault(M)])]
        c == ConvertChatItem(M, f, [recipients |-> found.recipients,
                                    calls |-> found.calls,
                                    meta |-> found.meta])
    IN  IF c.err # "none" THEN Ret(ChatFrameError(chat_id, c.err), found)
        ELSE
          LET ins == IF c.call = None
                     THEN [err |-> FALSE, map |-> found.calls]
                     ELSE MapInsert(M, found.calls, c.call[1].id, c.call[1])
              after == [found EXCEPT !.calls = ins.map]
          IN  IF ins.err THEN Ret(CallFrameError(c.call[1].id, "DuplicateId"), after)
              ELSE Ret(Ok,
                       [after EXCEPT
                          !.chats[chat_id].items = ListExtend(M, @, <<c.item>>)])

\* A variant of add_chat_item that puts the new item at the head of the list.
add_chat_item_Prepend(M, self, f) ==
    LET chat_id == f.chatId IN
    IF chat_id \notin DOMAIN self.chats
    THEN Ret(ChatFrameError(chat_id, "NoChatForItem"), self)
    ELSE
      LET c == ConvertChatItem(M, f, [recipients |-> self.recipients,
                                      calls |-> self.calls,
                                      meta |-> self.meta])
      IN  IF c.err # "none" THEN Ret(ChatFrameError(chat_id, c.err), self)
          ELSE
            LET ins == IF c.call = None
                       THEN [err |-> FALSE, map |-> self.calls]
                       ELSE MapInsert(M, self.calls, c.call[1].id, c.call[1])
                after == [self EXCEPT !.calls = ins.map]
            IN  IF ins.err THEN Ret(CallFrameError(c.call[1].id, "DuplicateId"), after)
                ELSE Ret(Ok,
                         [after EXCEPT
                            !.chats[chat_id].items =
                               IF M = "Store" THEN <<c.item>> \o @ ELSE @])

\* A variant of add_chat_item that appends the item to every chat it holds.
add_chat_item_AllChats(M, self, f) ==
    LET chat_id == f.chatId IN
    IF chat_id \notin DOMAIN self.chats
    THEN Ret(ChatFrameError(chat_id, "NoChatForItem"), self)
    ELSE
      LET c == ConvertChatItem(M, f, [recipients |-> self.recipients,
                                      calls |-> self.calls,
                                      meta |-> self.meta])
      IN  IF c.err # "none" THEN Ret(ChatFrameError(chat_id, c.err), self)
          ELSE
            LET ins == IF c.call = None
                       THEN [err |-> FALSE, map |-> self.calls]
                       ELSE MapInsert(M, self.calls, c.call[1].id, c.call[1])
                after == [self EXCEPT !.calls = ins.map]
            IN  IF ins.err THEN Ret(CallFrameError(c.call[1].id, "DuplicateId"), after)
                ELSE Ret(Ok,
                         [after EXCEPT
                            !.chats = [k \in DOMAIN self.chats |->
                                         [self.chats[k] EXCEPT
                                            !.items = ListExtend(M, @, <<c.item>>)]]])

\* add_chat_item: find the chat, convert with the context, insert the call the
\* conversion produced, and only then append the item to the chat.
add_chat_item(M, self, f) ==
    LET chat_id == f.chatId IN
    IF chat_id \notin DOMAIN self.chats
    THEN Ret(ChatFrameError(chat_id, "NoChatForItem"), self)
    ELSE
      LET c == ConvertChatItem(M, f, [recipients |-> self.recipients,
                                      calls |-> self.calls,
                                      meta |-> self.meta])
      IN  IF c.err # "none" THEN Ret(ChatFrameError(chat_id, c.err), self)
          ELSE
            LET ins == IF c.call = None
                       THEN [err |-> FALSE, map |-> self.calls]
                       ELSE MapInsert(M, self.calls, c.call[1].id, c.call[1])
                after == [self EXCEPT !.calls = ins.map]
            IN  IF ins.err THEN Ret(CallFrameError(c.call[1].id, "DuplicateId"), after)
                ELSE Ret(Ok,
                         [after EXCEPT
                            !.chats[chat_id].items = ListExtend(M, @, <<c.item>>)])

\* A variant of add_sticker_pack that replaces the pack of an id it already holds.
add_sticker_pack_Replace(M, self, f) ==
    LET p == ConvertPackId(f.packId) IN
    IF p.err THEN Ret(StickerInvalidId, self)
    ELSE LET id == p.id
             c == ConvertStickerPack(f)
         IN  IF c.err # "none" THEN Ret(StickerPackError(id, c.err), self)
             ELSE Ret(Ok, [self EXCEPT !.sticker_packs = HashInsert(self.sticker_packs, id, c.value)])

\* A variant of add_sticker_pack that keys the pack by the raw packId bytes.
add_sticker_pack_NoIdCheck(M, self, f) ==
    LET id == f.packId
        c == ConvertStickerPack(f)
    IN  IF c.err # "none" THEN Ret(StickerPackError(id, c.err), self)
        ELSE IF id \in DOMAIN self.sticker_packs THEN Ret(StickerDuplicateId(id), self)
        ELSE Ret(Ok, [self EXCEPT !.sticker_packs = HashInsert(self.sticker_packs, id, c.value)])

\* add_sticker_pack: parse the pack id, convert, then insert unless the id is taken.
add_sticker_pack(M, self, f) ==
    LET p == ConvertPackId(f.packId) IN
    IF p.err THEN Ret(StickerInvalidId, self)
    ELSE LET id == p.id
             c == ConvertStickerPack(f)
         IN  IF c.err # "none" THEN Ret(StickerPackError(id, c.err), self)
             ELSE IF id \in DOMAIN self.sticker_packs THEN Ret(StickerDuplicateId(id), self)
             ELSE Ret(Ok, [self EXCEPT !.sticker_packs = HashInsert(self.sticker_packs, id, c.value)])

\* The per-kind handler add_frame_item selects for a frame item.
HandlerOf(item) ==
    CASE item.kind = "Account" -> "add_account_data"
      [] item.kind = "Recipient" -> "add_recipient"
      [] item.kind = "Chat" -> "add_chat"
      [] item.kind = "ChatItem" -> "add_chat_item"
      [] item.kind = "StickerPack" -> "add_sticker_pack"

\* add_frame_item: the match on the frame item; via names the handler that ran.
add_frame_item(M, self, item) ==
    LET r == CASE item.kind = "Account" -> add_account_data(M, self, item)
               [] item.kind = "Recipient" -> add_recipient(M, self, item)
               [] item.kind = "Chat" -> add_chat(M, self, item)
               [] item.kind = "ChatItem" -> add_chat_item(M, self, item)
               [] item.kind = "StickerPack" -> add_sticker_pack(M, self, item)
    IN  [res |-> r.res, st |-> r.st, via |-> HandlerOf(item)]

\* A variant of add_frame that takes the default item for a frame without one.
add_frame_DefaultItem(M, self, f) ==
    IF f.kind = "Empty" THEN add_frame_item(M, self, [kind |-> "Account", ok |-> TRUE])
    ELSE add_frame_item(M, self, f)

\* add_frame: frame.item.ok_or(EmptyFrame)?, then add_frame_item.
add_frame(M, self, f) ==
    IF f.kind = "Empty" THEN [res |-> EmptyFrame, st |-> self, via |-> "none"]
    ELSE add_frame_item(M, self, f)

\* --------------------------------------------------------- state machine
\* The validators of both modes, built by new_store and new_validator from an
\* empty BackupInfo for a remote backup.
Init ==
    /\ pb = [M \in Modes |-> new(M, "RemoteBackup")]
    /\ frame = [kind |-> "None"]
    /\ handler = [M \in Modes |-> "none"]
    /\ result = [M \in Modes |-> Ok]
    /\ arrival = 0
    /\ accepted = [c \in Ids |-> <<>>]
    /\ nAccount = [M \in Modes |-> 0]
    /\ limit = MaxFrames
    /\ refused = <<>>
    /\ net = Idle /\ push = Idle /\ doh = Idle /\ pur = Idle

\* One add_frame(f) call on the Store validator and on the ValidateOnly validator.
AddFrame(f) ==
    LET r == [M \in Modes |-> add_frame(M, pb[M], f)] IN
    /\ arrival < limit
    /\ limit' = limit
    /\ UNCHANGED <<net, push, doh, pur>>
    /\ pb' = [M \in Modes |-> r[M].st]
    /\ result' = [M \in Modes |-> r[M].res]
    /\ handler' = [M \in Modes |-> r[M].via]
    /\ frame' = f
    /\ arrival' = arrival + 1
    /\ accepted' =
         IF f.kind = "ChatItem" /\ r["Store"].res.tag = "Ok"
         THEN [accepted EXCEPT ![f.chatId] = Append(@, f.sent)]
         ELSE accepted
    /\ nAccount' =
         [M \in Modes |->
            IF f.kind = "Account" /\ r[M].res.tag = "Ok" THEN nAccount[M] + 1 ELSE nAccount[M]]
    /\ refused' =
         IF DOMAIN refused = {} \/ f.kind # "Chat" THEN refused
         ELSE [refused EXCEPT ![f.id] =
                 IF r["Store"].res.tag = "Ok" THEN None
                 ELSE IF r["Store"].res.e = "NoRecipient" /\ f.id \notin DOMAIN pb["Store"].chats
                 THEN Some(f.recipientId)
                 ELSE @]

AddEmpty == \E f \in EmptyFrames : AddFrame(f)
AddAccountData == \E f \in AccountFrames : AddFrame(f)
AddRecipient == \E f \in RecipientFrames : AddFrame(f)
AddChat == \E f \in ChatFrames : AddFrame(f)
AddChatItem == \E f \in ChatItemFrames(arrival + 1) : AddFrame(f)
AddStickerPack == \E f \in StickerPackFrames : AddFrame(f)

Next ==
    \/ AddEmpty
    \/ AddAccountData
    \/ AddRecipient
    \/ AddChat
    \/ AddChatItem
    \/ AddStickerPack

Spec == Init /\ [][Next]_vars

\* The test fixture fake_with([Recipient, Chat]): a validator that already holds
\* recipient 1 and chat 1 of recipient 1.
InitFixture ==
    /\ pb = [M \in Modes |->
               add_frame(M,
                         add_frame(M, new(M, "RemoteBackup"),
                                   [kind |-> "Recipient", id |-> 1, ok |-> TRUE]).st,
                         [kind |-> "Chat", id |-> 1, recipientId |-> 1]).st]
    /\ frame = [kind |-> "None"]
    /\ handler = [M \in Modes |-> "none"]
    /\ result = [M \in Modes |-> Ok]
    /\ arrival = 0
    /\ accepted = [c \in Ids |-> <<>>]
    /\ nAccount = [M \in Modes |-> 0]
    /\ limit = MaxFixtureFrames
    /\ refused = <<>>
    /\ net = Idle /\ push = Idle /\ doh = Idle /\ pur = Idle

SpecFixture == InitFixture /\ [][Next]_vars

\* Number of add_frame calls made in a run that keeps track of refused chats.
MaxTrackedFrames == 3

\* The empty validators, with the Chat frames refused for a missing recipient
\* kept track of.
InitTracked ==
    /\ pb = [M \in Modes |-> new(M, "RemoteBackup")]
    /\ frame = [kind |-> "None"]
    /\ handler = [M \in Modes |-> "none"]
    /\ result = [M \in Modes |-> Ok]
    /\ arrival = 0
    /\ accepted = [c \in Ids |-> <<>>]
    /\ nAccount = [M \in Modes |-> 0]
    /\ limit = MaxTrackedFrames
    /\ refused = [c \in Ids |-> None]
    /\ net = Idle /\ push = Idle /\ doh = Idle /\ pur = Idle

SpecTracked == InitTracked /\ [][Next]_vars

\* ------------------------------------------------------------ the claims
\* The conversion context add_chat_item builds from a validator.
ContextOf(self) == [recipients |-> self.recipients, calls |-> self.calls, meta |-> self.meta]

\* The last step was an add_frame call in which mode M returned an error.
Rejected(M) == result[M].tag # "Ok"

\* C1: a ChatItem whose chat exists and whose conversion succeeds, but whose
\* embedded call id is already in the call map, is rejected with
\* CallError::DuplicateId, and the chat's item list and the call map are what
\* they were before the call.
C1_ChatItemAtomic ==
    [][\A M \in Modes :
         ( /\ frame'.kind = "ChatItem"
           /\ frame'.chatId \in DOMAIN pb[M].chats
           /\ ConvertChatItem(M, frame', ContextOf(pb[M])).err = "none"
           /\ frame'.call # None
           /\ MapContains(M, pb[M].calls, frame'.call[1]) )
         => /\ result'[M] = CallFrameError(frame'.call[1], "DuplicateId")
            /\ pb'[M].chats[frame'.chatId].items = pb[M].chats[frame'.chatId].items
            /\ pb'[M].calls = pb[M].calls]_vars

\* C1 witness: scenario S4, the second ChatItem with the same call id has been
\* rejected and the chat holds exactly one item.
C1_Witness ==
    /\ frame.kind = "ChatItem"
    /\ \A M \in Modes : result[M].tag = "CallError" /\ result[M].e = "DuplicateId"
    /\ Len(pb["Store"].chats[frame.chatId].items) = 1
    /\ arrival = 4

\* C2: whenever add_frame returns an error, the validator (account data,
\* recipients, chats and item lists, calls, sticker packs, meta) is identical
\* to the one before the call.
C2_ErrorsFrameLocal ==
    [][\A M \in Modes : result'[M].tag # "Ok" => pb'[M] = pb[M]]_vars

\* C2 witness: a frame was rejected by a validator that holds a chat with an item.
C2_Witness ==
    /\ \A M \in Modes : Rejected(M)
    /\ \E c \in DOMAIN pb["Store"].chats : Len(pb["Store"].chats[c].items) > 0

\* C3: at most one AccountData frame is ever accepted, and once one has been
\* accepted every later AccountData frame is rejected with MultipleAccountData.
C3_AtMostOneAccount ==
    [][\A M \in Modes :
         /\ nAccount'[M] <= 1
         /\ (frame'.kind = "Account" /\ nAccount[M] >= 1)
              => result'[M] = MultipleAccountData]_vars

\* C3 witness: a second AccountData frame was rejected after a first was accepted.
C3_Witness ==
    /\ frame.kind = "Account"
    /\ \A M \in Modes : nAccount[M] = 1 /\ result[M] = MultipleAccountData

\* The frame f repeats the id of an entity of its kind that validator self holds.
RepeatsId(M, self, f) ==
    \/ f.kind = "Recipient" /\ MapContains(M, self.recipients, f.id)
    \/ f.kind = "Chat" /\ f.id \in DOMAIN self.chats
    \/ f.kind = "ChatItem" /\ f.call # None /\ MapContains(M, self.calls, f.call[1])
    \/ f.kind = "StickerPack" /\ f.packId \in DOMAIN self.sticker_packs

\* The duplicate-id error of the kind of frame f.
DuplicateErrorOf(f) ==
    CASE f.kind = "Recipient" -> RecipientFrameError(f.id, "DuplicateRecipient")
      [] f.kind = "Chat" -> ChatFrameError(f.id, "DuplicateId")
      [] f.kind = "ChatItem" -> CallFrameError(f.call[1], "DuplicateId")
      [] f.kind = "StickerPack" -> StickerDuplicateId(f.packId)

\* The frame f passes every check its handler makes before the duplicate check.
PassesEarlierChecks(M, self, f) ==
    CASE f.kind = "Recipient" -> ConvertRecipient(M, f).err = "none"
      [] f.kind = "Chat" -> ConvertChat(M, f, self.recipients).err = "none"
      [] f.kind = "ChatItem" ->
           /\ f.chatId \in DOMAIN self.chats
           /\ ConvertChatItem(M, f, ContextOf(self)).err = "none"
      [] f.kind = "StickerPack" -> ConvertStickerPack(f).err = "none"

\* C4 as stated: every frame that repeats an id of its kind is rejected with
\* that kind's duplicate-id error and leaves the validator unchanged.
C4_Original ==
    [][\A M \in Modes :
         RepeatsId(M, pb[M], frame')
         => result'[M] = DuplicateErrorOf(frame') /\ pb'[M] = pb[M]]_vars

\* C4 amended: a frame that repeats an id of its kind is always rejected and
\* leaves the validator unchanged; the error is the kind's duplicate-id error
\* when the frame passes the checks made before the duplicate check.
C4_Uniqueness ==
    [][\A M \in Modes :
         RepeatsId(M, pb[M], frame')
         => /\ result'[M].tag # "Ok"
            /\ pb'[M] = pb[M]
            /\ PassesEarlierChecks(M, pb[M], frame')
                 => result'[M] = DuplicateErrorOf(frame')]_vars

\* C4 witness: a repeated chat id was rejected with ChatError::DuplicateId.
C4_Witness ==
    /\ frame.kind = "Chat"
    /\ frame.id \in DOMAIN pb["Store"].chats
    /\ \A M \in Modes : result[M] = ChatFrameError(frame.id, "DuplicateId")

\* C5: a Chat frame whose recipientId is not a known recipient is rejected
\* with a ChatFrameError for the missing recipient, and no chat is created.
C5_ChatNeedsRecipient ==
    [][\A M \in Modes :
         (frame'.kind = "Chat" /\ ~MapContains(M, pb[M].recipients, frame'.recipientId))
         => /\ result'[M] = ChatFrameError(frame'.id, "NoRecipient")
            /\ pb'[M].chats = pb[M].chats]_vars

\* C5 witness: the first frame fed to an empty validator is a Chat, and it is
\* rejected for its missing recipient.
C5_Witness ==
    /\ frame.kind = "Chat"
    /\ arrival = 1
    /\ \A M \in Modes : result[M].tag = "ChatError" /\ result[M].e = "NoRecipient"
    /\ \A M \in Modes : DOMAIN pb[M].chats = {}

\* C6: a ChatItem whose chatId is no accepted chat is rejected with
\* ChatFrameError(chatId, NoChatForItem); one whose chat exists but whose author
\* is no known recipient is rejected; neither appends an item or inserts a call.
C6_ChatItemForeignKeys ==
    [][\A M \in Modes :
         /\ (frame'.kind = "ChatItem" /\ frame'.chatId \notin DOMAIN pb[M].chats)
              => /\ result'[M] = ChatFrameError(frame'.chatId, "NoChatForItem")
                 /\ pb'[M].chats = pb[M].chats
                 /\ pb'[M].calls = pb[M].calls
         /\ ( /\ frame'.kind = "ChatItem"
              /\ frame'.chatId \in DOMAIN pb[M].chats
              /\ ~MapContains(M, pb[M].recipients, frame'.authorId) )
              => /\ result'[M].tag = "ChatError"
                 /\ result'[M].chat = frame'.chatId
                 /\ pb'[M].chats = pb[M].chats
                 /\ pb'[M].calls = pb[M].calls]_vars

\* C6 witness: a ChatItem carrying a call, addressed to an existing chat by an
\* unknown author, was rejected.
C6_Witness ==
    /\ frame.kind = "ChatItem"
    /\ frame.call # None
    /\ frame.chatId \in DOMAIN pb["Store"].chats
    /\ ~MapContains("Store", pb["Store"].recipients, frame.authorId)
    /\ \A M \in Modes : result[M].tag = "ChatError"

\* The identifier sets a validator of mode M tracks.
IdSets(M) ==
    [account |-> pb[M].account_data # None,
     recipients |-> MapKeys(M, pb[M].recipients),
     chats |-> DOMAIN pb[M].chats,
     calls |-> MapKeys(M, pb[M].calls),
     sticker_packs |-> DOMAIN pb[M].sticker_packs]

\* C7: fed the same frames, the Store and the ValidateOnly validator return the
\* same verdict and error for every frame and track the same identifier sets.
C7_ModeEquivalence ==
    /\ result["Store"].tag = result["ValidateOnly"].tag
    /\ result["Store"] = result["ValidateOnly"]
    /\ IdSets("Store") = IdSets("ValidateOnly")

\* C7 witness: both modes rejected a repeated recipient after accepting a chat item.
C7_Witness ==
    /\ frame.kind = "Recipient"
    /\ \A M \in Modes : result[M].tag = "RecipientError" /\ result[M].e = "DuplicateRecipient"
    /\ \A M \in Modes : DOMAIN pb[M].chats # {}

\* The arrival numbers of the items a Store chat holds, in list order.
ItemArrivals(c) ==
    LET items == pb["Store"].chats[c].items IN [i \in 1 .. Len(items) |-> items[i].sent]

\* C8: every chat's item list is the accepted ChatItem frames addressed to it,
\* in arrival order, each exactly once.
C8_OrderPreserved ==
    \A c \in Ids :
        IF c \in DOMAIN pb["Store"].chats
        THEN ItemArrivals(c) = accepted[c]
        ELSE accepted[c] = <<>>

\* C8 witness: a chat holds two items with a rejected frame fed between them.
C8_Witness ==
    \E c \in DOMAIN pb["Store"].chats :
        /\ Len(pb["Store"].chats[c].items) = 2
        /\ pb["Store"].chats[c].items[1].sent = 1
        /\ pb["Store"].chats[c].items[2].sent = 3

\* C9: a frame with an empty item is rejected with EmptyFrame, reaches no
\* per-kind handler and leaves the validator unchanged.
C9_EmptyFrame ==
    [][\A M \in Modes :
         frame'.kind = "Empty"
         => /\ result'[M] = EmptyFrame
            /\ handler'[M] = "none"
            /\ pb'[M] = pb[M]]_vars

\* C9 witness: an empty frame was rejected by a validator holding a recipient.
C9_Witness ==
    /\ frame.kind = "Empty"
    /\ \A M \in Modes : result[M] = EmptyFrame
    /\ MapKeys("Store", pb["Store"].recipients) # {}

\* C10: a StickerPack frame whose packId is not PackIdLen bytes long is rejected
\* with StickerError::InvalidId and stores no pack; every key of the
\* sticker-pack map is PackIdLen bytes long.
C10_StickerPackId ==
    [][\A M \in Modes :
         /\ (frame'.kind = "StickerPack" /\ Len(frame'.packId) # PackIdLen)
              => /\ result'[M] = StickerInvalidId
                 /\ pb'[M].sticker_packs = pb[M].sticker_packs
         /\ \A k \in DOMAIN pb'[M].sticker_packs : Len(k) = PackIdLen]_vars

\* C10 witness: a pack id of the wrong length was rejected by a validator that
\* already stores a pack.
C10_Witness ==
    /\ frame.kind = "StickerPack"
    /\ Len(frame.packId) # PackIdLen
    /\ \A M \in Modes : result[M] = StickerInvalidId
    /\ DOMAIN pb["Store"].sticker_packs # {}

\* C23: after every add_frame call, accepted or not, every stored chat's
\* recipient is a known recipient, every item of a chat's list has a known
\* author, and the call map holds exactly the calls of the accepted chat
\* items, one item per call: a call id enters the map only with the accepted
\* ChatItem that carries it, which needs the id to be new.
C23_ReferentialIntegrity ==
    [][\A M \in Modes :
         /\ \A c \in DOMAIN pb'[M].chats :
              MapContains(M, pb'[M].recipients, pb'[M].chats[c].recipient)
         /\ \A c \in DOMAIN pb'["Store"].chats :
              \A i \in 1 .. Len(pb'["Store"].chats[c].items) :
                 MapContains(M, pb'[M].recipients, pb'["Store"].chats[c].items[i].author)
         /\ IF frame'.kind = "ChatItem" /\ result'[M].tag = "Ok" /\ frame'.call # None
            THEN /\ frame'.call[1] \notin MapKeys(M, pb[M].calls)
                 /\ MapKeys(M, pb'[M].calls) = MapKeys(M, pb[M].calls) \cup {frame'.call[1]}
            ELSE MapKeys(M, pb'[M].calls) = MapKeys(M, pb[M].calls)]_vars

\* C23 witness: a chat item carrying a call was accepted into a chat, after a
\* frame was rejected.
C23_Witness ==
    /\ frame.kind = "ChatItem"
    /\ frame.call # None
    /\ \A M \in Modes : result[M].tag = "Ok"
    /\ \A M \in Modes : MapKeys(M, pb[M].calls) = {frame.call[1]}
    /\ Len(pb["Store"].chats[frame.chatId].items) = 1
    /\ arrival = 4

\* C24: a Chat frame whose recipient is not yet known, and a ChatItem whose
\* chat is not yet known, are rejected; a chat refused for its recipient
\* stays absent whatever arrives later (items addressed to it fail with
\* NoChatForItem) until a Chat frame of its id is submitted and accepted; a
\* chat enters the map only by its own accepted Chat frame, empty, and an
\* item list grows only by the ChatItem frame of the step.
C24_NoBuffering ==
    [][\A M \in Modes :
         /\ (frame'.kind = "Chat" /\ ~MapContains(M, pb[M].recipients, frame'.recipientId))
              => result'[M].tag # "Ok"
         /\ (frame'.kind = "ChatItem" /\ frame'.chatId \notin DOMAIN pb[M].chats)
              => result'[M].tag # "Ok"
         /\ \A c \in DOMAIN refused :
              refused[c] # None =>
                 /\ c \notin DOMAIN pb[M].chats
                 /\ (frame'.kind = "ChatItem" /\ frame'.chatId = c)
                      => result'[M] = ChatFrameError(c, "NoChatForItem")
                 /\ c \in DOMAIN pb'[M].chats
                      => (frame'.kind = "Chat" /\ frame'.id = c /\ result'[M].tag = "Ok")
         /\ \A c \in DOMAIN pb'[M].chats :
              IF c \in DOMAIN pb[M].chats
              THEN pb'[M].chats[c].items # pb[M].chats[c].items
                     => (frame'.kind = "ChatItem" /\ frame'.chatId = c /\ result'[M].tag = "Ok")
              ELSE /\ frame'.kind = "Chat" /\ frame'.id = c /\ result'[M].tag = "Ok"
                   /\ pb'[M].chats[c].items = ListDefault(M)]_vars

\* C24 witness: a Chat frame was refused for its missing recipient, the
\* recipient has arrived since, and an item addressed to the chat still fails
\* with NoChatForItem.
C24_Witness ==
    \E c \in DOMAIN refused :
       /\ refused[c] # None
       /\ \A M \in Modes : MapContains(M, pb[M].recipients, refused[c][1])
       /\ frame.kind = "ChatItem"
       /\ frame.chatId = c
       /\ MapContains("Store", pb["Store"].recipients, frame.authorId)
       /\ \A M \in Modes : result[M] = ChatFrameError(c, "NoChatForItem")
       /\ \A M \in Modes : c \notin DOMAIN pb[M].chats

\* The sequence a is a prefix of the sequence b.
IsPrefix(a, b) == Len(a) <= Len(b) /\ \A i \in 1 .. Len(a) : a[i] = b[i]

\* C25: no add_frame call removes a recipient id, chat id, call id or sticker
\* pack id, replaces or clears an accepted account data, or changes meta, and
\* each chat's item list before the call is a prefix of the list after it.
C25_MonotoneGrowth ==
    [][\A M \in Modes :
         /\ MapKeys(M, pb[M].recipients) \subseteq MapKeys(M, pb'[M].recipients)
         /\ DOMAIN pb[M].chats \subseteq DOMAIN pb'[M].chats
         /\ MapKeys(M, pb[M].calls) \subseteq MapKeys(M, pb'[M].calls)
         /\ DOMAIN pb[M].sticker_packs \subseteq DOMAIN pb'[M].sticker_packs
         /\ pb[M].account_data # None =>
              /\ pb'[M].account_data = pb[M].account_data
              /\ frame'.kind = "Account" => result'[M].tag # "Ok"
         /\ pb'[M].meta = pb[M].meta
         /\ \A c \in DOMAIN pb[M].chats \cap DOMAIN pb'[M].chats :
              /\ pb'[M].chats[c].recipient = pb[M].chats[c].recipient
              /\ IF M = "Store"
                 THEN IsPrefix(pb[M].chats[c].items, pb'[M].chats[c].items)
                 ELSE pb'[M].chats[c].items = pb[M].chats[c].items]_vars

\* C25 witness: a second item was appended to a chat that held one.
C25_Witness ==
    /\ frame.kind = "ChatItem"
    /\ \A M \in Modes : result[M].tag = "Ok"
    /\ Len(pb["Store"].chats[frame.chatId].items) = 2
    /\ \A M \in Modes : MapKeys(M, pb[M].recipients) # {}

\* C30: of a frame that breaks several rules the earliest check is reported.
\* ChatItem: the missing chat before the conversion error, and that before the
\* duplicate call; Chat: the conversion error before DuplicateId; Recipient:
\* the conversion error before DuplicateRecipient; StickerPack: InvalidId
\* before PackError before DuplicateId; AccountData: MultipleAccountData
\* before the conversion error.
C30_CheckOrder ==
    [][\A M \in Modes :
         LET f == frame'
             self == pb[M]
         IN
         /\ f.kind = "ChatItem" =>
              /\ (/\ f.chatId \notin DOMAIN self.chats
                  /\ \/ ConvertChatItem(M, f, ContextOf(self)).err # "none"
                     \/ RepeatsId(M, self, f))
                   => result'[M] = ChatFrameError(f.chatId, "NoChatForItem")
              /\ (/\ f.chatId \in DOMAIN self.chats
                  /\ ConvertChatItem(M, f, ContextOf(self)).err # "none"
                  /\ RepeatsId(M, self, f))
                   => result'[M] =
                        ChatFrameError(f.chatId, ConvertChatItem(M, f, ContextOf(self)).err)
         /\ (f.kind = "Chat" /\ ConvertChat(M, f, self.recipients).err # "none"
               /\ RepeatsId(M, self, f))
              => result'[M] = ChatFrameError(f.id, ConvertChat(M, f, self.recipients).err)
         /\ (f.kind = "Recipient" /\ ConvertRecipient(M, f).err # "none"
               /\ RepeatsId(M, self, f))
              => result'[M] = RecipientFrameError(f.id, ConvertRecipient(M, f).err)
         /\ f.kind = "StickerPack" =>
              /\ (ConvertPackId(f.packId).err /\ ConvertStickerPack(f).err # "none")
                   => result'[M] = StickerInvalidId
              /\ (~ConvertPackId(f.packId).err /\ ConvertStickerPack(f).err # "none"
                    /\ RepeatsId(M, self, f))
                   => result'[M] = StickerPackError(f.packId, ConvertStickerPack(f).err)
         /\ (f.kind = "Account" /\ self.account_data # None
               /\ ConvertAccountData(M, f).err # "none")
              => result'[M] = MultipleAccountData]_vars

\* C30 witness: a Recipient frame that both repeats an id and fails its
\* conversion was rejected with the conversion error.
C30_Witness ==
    /\ frame.kind = "Recipient"
    /\ ~frame.ok
    /\ \A M \in Modes : MapContains(M, pb[M].recipients, frame.id)
    /\ \A M \in Modes : result[M] = RecipientFrameError(frame.id, "InvalidRecipient")

\* The M::Map after holds the entries of before and one more, under key,
\* with the value v.
MapGainsOne(M, before, after, key, v) ==
    /\ ~MapContains(M, before, key)
    /\ MapKeys(M, after) = MapKeys(M, before) \cup {key}
    /\ M = "Store" =>
         /\ after[key] = v
         /\ \A k \in DOMAIN before : after[k] = before[k]

\* The HashMap after holds the entries of before and one more, under key,
\* with the value v.
HashGainsOne(before, after, key, v) ==
    /\ key \notin DOMAIN before
    /\ DOMAIN after = DOMAIN before \cup {key}
    /\ after[key] = v
    /\ \A k \in DOMAIN before : after[k] = before[k]

\* C31: an accepted frame changes the part of the validator that belongs to
\* its kind and nothing else. Recipient: one new entry of the recipient map;
\* Chat: one new, empty chat; StickerPack: one new pack; AccountData: the
\* empty account slot is set; ChatItem: one item at the end of the list of the
\* chat it names (the list Store keeps) and one new call exactly when the item
\* carries one, with every other chat, the recipients, the sticker packs, the
\* account data and meta as they were.
C31_FrameEffect ==
    [][\A M \in Modes :
         result'[M].tag = "Ok" =>
           LET s == pb[M]
               t == pb'[M]
               f == frame'
           IN  CASE f.kind = "Recipient" ->
                      /\ MapGainsOne(M, s.recipients, t.recipients, f.id, [id |-> f.id])
                      /\ t = [s EXCEPT !.recipients = t.recipients]
                 [] f.kind = "Chat" ->
                      /\ HashGainsOne(s.chats, t.chats, f.id,
                                      [recipient |-> f.recipientId, items |-> ListDefault(M)])
                      /\ t = [s EXCEPT !.chats = t.chats]
                 [] f.kind = "StickerPack" ->
                      /\ HashGainsOne(s.sticker_packs, t.sticker_packs, f.packId, "pack")
                      /\ t = [s EXCEPT !.sticker_packs = t.sticker_packs]
                 [] f.kind = "Account" ->
                      /\ s.account_data = None
                      /\ t.account_data = Some(MValue(M, "account"))
                      /\ t = [s EXCEPT !.account_data = t.account_data]
                 [] f.kind = "ChatItem" ->
                      /\ f.chatId \in DOMAIN s.chats
                      /\ DOMAIN t.chats = DOMAIN s.chats
                      /\ \A c \in DOMAIN s.chats \ {f.chatId} : t.chats[c] = s.chats[c]
                      /\ t.chats[f.chatId].recipient = s.chats[f.chatId].recipient
                      /\ t.chats[f.chatId].items =
                           IF M = "Store"
                           THEN Append(s.chats[f.chatId].items,
                                       [author |-> f.authorId, sent |-> f.sent])
                           ELSE s.chats[f.chatId].items
                      /\ IF f.call = None
                         THEN t.calls = s.calls
                         ELSE MapGainsOne(M, s.calls, t.calls, f.call[1], [id |-> f.call[1]])
                      /\ t = [s EXCEPT !.chats = t.chats, !.calls = t.calls]
                 [] OTHER -> FALSE]_vars

\* C31 witness: an item that carries a call was accepted for one of two
\* chats; the chat holds the item, the call is in the call map and the other
\* chat is still empty.
C31_Witness ==
    /\ frame.kind = "ChatItem"
    /\ frame.call # None
    /\ \A M \in Modes : result[M].tag = "Ok"
    /\ \A M \in Modes : MapContains(M, pb[M].calls, frame.call[1])
    /\ DOMAIN pb["Store"].chats = Ids
    /\ \A c \in Ids :
         Len(pb["Store"].chats[c].items) = (IF c = frame.chatId THEN 1 ELSE 0)

\* =================================================== enclave connection
\* Number of inner routes of the multi-route manager.
NumRoutes == 3
\* The clock runs from 0 to MaxTime.
MaxTime == 3
\* Number of connect calls made on one manager in one run.
MaxCalls == 3
\* Length of the cooldown window a failed attempt installs.
CooldownWindow == 2

\* What a transport connector does when invoked: it yields a stream, fails
\* (TransportConnectError::TcpConnectionFailed), or does not finish in time.
TransportOutcomes == {"ok", "TcpConnectionFailed", "elapsed"}

\* What AttestedConnection::connect does on a live WebSocket.
HandshakeOutcomes == {"ok", "ClientConnection", "WebSocket", "Protocol", "Sgx"}

\* The results of EnclaveEndpointConnection::connect.
Attested == [tag |-> "Ok", e |-> "AttestedConnection"]
WebSocketConnect(e) == [tag |-> "WebSocketConnect", e |-> e]
WebSocketErr(e) == [tag |-> "WebSocket", e |-> e]
ProtocolErr == [tag |-> "Protocol", e |-> "none"]
AttestationError(e) == [tag |-> "AttestationError", e |-> e]
ConnectionTimedOut == [tag |-> "ConnectionTimedOut", e |-> "none"]
Unreachable == [tag |-> "panic", e |-> "unreachable"]

\* A variant of connect_or_wait that never tries again a route that has failed.
SingleRouteConnectOrWait_Forever(next_attempt, now, outcome) ==
    IF next_attempt > 0
    THEN [tag |-> "WaitUntil", at |-> next_attempt, e |-> "none",
          next_attempt |-> next_attempt, invoked |-> FALSE]
    ELSE IF outcome = "ok"
    THEN [tag |-> "Attempted", at |-> 0, e |-> "none",
          next_attempt |-> next_attempt, invoked |-> TRUE]
    ELSE IF outcome = "elapsed"
    THEN [tag |-> "TimedOut", at |-> 0, e |-> "none",
          next_attempt |-> now + CooldownWindow, invoked |-> TRUE]
    ELSE [tag |-> "Attempted", at |-> 0, e |-> outcome,
          next_attempt |-> now + CooldownWindow, invoked |-> TRUE]

\* A variant of connect_or_wait that attempts the route whatever its cooldown.
SingleRouteConnectOrWait_NoThrottle(next_attempt, now, outcome) ==
    IF outcome = "ok"
    THEN [tag |-> "Attempted", at |-> 0, e |-> "none",
          next_attempt |-> next_attempt, invoked |-> TRUE]
    ELSE IF outcome = "elapsed"
    THEN [tag |-> "TimedOut", at |-> 0, e |-> "none",
          next_attempt |-> now + CooldownWindow, invoked |-> TRUE]
    ELSE [tag |-> "Attempted", at |-> 0, e |-> outcome,
          next_attempt |-> now + CooldownWindow, invoked |-> TRUE]

\* SingleRouteThrottlingConnectionManager::connect_or_wait on a route whose
\* next attempt is allowed at next_attempt: WaitUntil inside the cooldown
\* window, else one attempt; a failed attempt installs a cooldown window.
SingleRouteConnectOrWait(next_attempt, now, outcome) ==
    IF now < next_attempt
    THEN [tag |-> "WaitUntil", at |-> next_attempt, e |-> "none",
          next_attempt |-> next_attempt, invoked |-> FALSE]
    ELSE IF outcome = "ok"
    THEN [tag |-> "Attempted", at |-> 0, e |-> "none",
          next_attempt |-> next_attempt, invoked |-> TRUE]
    ELSE IF outcome = "elapsed"
    THEN [tag |-> "TimedOut", at |-> 0, e |-> "none",
          next_attempt |-> now + CooldownWindow, invoked |-> TRUE]
    ELSE [tag |-> "Attempted", at |-> 0, e |-> outcome,
          next_attempt |-> now + CooldownWindow, invoked |-> TRUE]

Min(S) == CHOOSE x \in S : \A y \in S : x <= y

\* A variant of the multi-route iteration that goes on to the later routes
\* after a route has connected.
RECURSIVE MultiRouteFrom_TryAll(_, _, _, _, _)
MultiRouteFrom_TryAll(i, routes, now, outcomes, log) ==
    IF i > Len(routes)
    THEN IF \E k \in 1 .. Len(log) : log[k].outcome = "ok"
         THEN [tag |-> "Attempted", at |-> 0, e |-> "none", routes |-> routes, log |-> log]
         ELSE [tag |-> "WaitUntil", at |-> Min({routes[r] : r \in 1 .. Len(routes)}),
               e |-> "none", routes |-> routes, log |-> log]
    ELSE LET r == SingleRouteConnectOrWait(routes[i], now, outcomes[i]) IN
         MultiRouteFrom_TryAll(i + 1, [routes EXCEPT ![i] = r.next_attempt], now, outcomes,
                               IF r.invoked
                               THEN Append(log, [route |-> i, outcome |-> outcomes[i]])
                               ELSE log)

\* MultiRouteConnectionManager::connect_or_wait from route i on: the routes are
\* tried in order, a route in cooldown is passed over, the first live
\* connection is returned; WaitUntil when no route is left.
RECURSIVE MultiRouteFrom(_, _, _, _, _)
MultiRouteFrom(i, routes, now, outcomes, log) ==
    IF i > Len(routes)
    THEN [tag |-> "WaitUntil", at |-> Min({routes[r] : r \in 1 .. Len(routes)}),
          e |-> "none", routes |-> routes, log |-> log]
    ELSE LET r == SingleRouteConnectOrWait(routes[i], now, outcomes[i])
             routes2 == [routes EXCEPT ![i] = r.next_attempt]
             log2 == IF r.invoked THEN Append(log, [route |-> i, outcome |-> outcomes[i]])
                     ELSE log
         IN  IF r.tag = "Attempted" /\ r.e = "none"
             THEN [tag |-> "Attempted", at |-> 0, e |-> "none", routes |-> routes2, log |-> log2]
             ELSE MultiRouteFrom(i + 1, routes2, now, outcomes, log2)

\* ConnectionManager::connect_or_wait of the manager of kind mgr.
ConnectOrWait(mgr, routes, now, outcomes) ==
    IF mgr = "single"
    THEN LET r == SingleRouteConnectOrWait(routes[1], now, outcomes[1]) IN
         [tag |-> r.tag, at |-> r.at, e |-> r.e,
          routes |-> <<r.next_attempt>>,
          log |-> IF r.invoked THEN <<[route |-> 1, outcome |-> outcomes[1]]>> ELSE <<>>]
    ELSE MultiRouteFrom(1, routes, now, outcomes, <<>>)

\* ServiceInitializer::connect: the ServiceState of a ConnectionAttemptOutcome.
ServiceInitializerConnect(outcome) ==
    CASE outcome.tag = "Attempted" /\ outcome.e = "none" -> [tag |-> "Active", e |-> "none"]
      [] outcome.tag = "Attempted" /\ outcome.e # "none" -> [tag |-> "Error", e |-> outcome.e]
      [] outcome.tag = "WaitUntil" -> [tag |-> "Cooldown", e |-> "none"]
      [] outcome.tag = "TimedOut" -> [tag |-> "ConnectionTimedOut", e |-> "none"]

\* A variant of the conversion that takes a failed Noise handshake for an
\* attestation failure.
ErrorFrom_ClientConnectionAsAttestation(value) ==
    CASE value = "ClientConnection" -> AttestationError("err")
      [] value = "WebSocket" -> WebSocketErr("net")
      [] value = "Protocol" -> ProtocolErr
      [] value = "Sgx" -> AttestationError("err")

\* impl From<AttestedConnectionError> for Error
ErrorFrom(value) ==
    CASE value = "ClientConnection" -> ProtocolErr
      [] value = "WebSocket" -> WebSocketErr("net")
      [] value = "Protocol" -> ProtocolErr
      [] value = "Sgx" -> AttestationError("err")

\* A variant of the handshake step that returns the connection whatever the
\* handshake came to.
AttestedConnect_Unchecked(hs) == Attested

\* AttestedConnection::connect on a live WebSocket, then the ? of connect.
AttestedConnect(hs) == IF hs = "ok" THEN Attested ELSE ErrorFrom(hs)

\* A variant of connect that reports a route in cooldown as a failed WebSocket
\* connection.
connect_CooldownAsError(state, hs) ==
    CASE state.tag = "Active" -> [res |-> AttestedConnect(hs), handshake |-> TRUE]
      [] state.tag = "Error" -> [res |-> WebSocketConnect(state.e), handshake |-> FALSE]
      [] state.tag = "Cooldown" -> [res |-> WebSocketConnect("Timeout"), handshake |-> FALSE]
      [] state.tag = "ConnectionTimedOut" -> [res |-> ConnectionTimedOut, handshake |-> FALSE]
      [] state.tag = "Inactive" -> [res |-> Unreachable, handshake |-> FALSE]

\* A variant of connect that takes Cooldown, like Inactive, for a state the
\* initializer cannot return.
connect_CooldownUnreachable(state, hs) ==
    CASE state.tag = "Active" -> [res |-> AttestedConnect(hs), handshake |-> TRUE]
      [] state.tag = "Error" -> [res |-> WebSocketConnect(state.e), handshake |-> FALSE]
      [] state.tag = "ConnectionTimedOut" -> [res |-> ConnectionTimedOut, handshake |-> FALSE]
      [] state.tag \in {"Cooldown", "Inactive"} -> [res |-> Unreachable, handshake |-> FALSE]

\* A variant of connect that reports every failed attempt as a timeout.
connect_ErrorAsTimeout(state, hs) ==
    CASE state.tag = "Active" -> [res |-> AttestedConnect(hs), handshake |-> TRUE]
      [] state.tag \in {"Error", "Cooldown", "ConnectionTimedOut"} ->
           [res |-> ConnectionTimedOut, handshake |-> FALSE]
      [] state.tag = "Inactive" -> [res |-> Unreachable, handshake |-> FALSE]

\* EnclaveEndpointConnection::connect from the ServiceState the initializer
\* returned: the match on it, then the attestation handshake on the WebSocket.
connect(state, hs) ==
    CASE state.tag = "Active" -> [res |-> AttestedConnect(hs), handshake |-> TRUE]
      [] state.tag = "Error" -> [res |-> WebSocketConnect(state.e), handshake |-> FALSE]
      [] state.tag \in {"Cooldown", "ConnectionTimedOut"} ->
           [res |-> ConnectionTimedOut, handshake |-> FALSE]
      [] state.tag = "Inactive" -> [res |-> Unreachable, handshake |-> FALSE]

\* A manager of either shape, as the tests build it, before any attempt.
InitEnclave ==
    /\ \E mgr \in {"single", "multi"} :
          net = [mgr |-> mgr,
                 routes |-> [i \in 1 .. (IF mgr = "single" THEN 1 ELSE NumRoutes) |-> 0],
                 now |-> 0,
                 calls |-> 0,
                 op |-> "new",
                 state |-> "Inactive",
                 res |-> Attested,
                 invoked |-> <<>>,
                 handshake |-> FALSE,
                 hs |-> "none"]
    /\ pb = Idle /\ frame = Idle /\ handler = Idle /\ result = Idle
    /\ arrival = Idle /\ accepted = Idle /\ nAccount = Idle /\ limit = Idle /\ refused = Idle
    /\ push = Idle /\ doh = Idle /\ pur = Idle

\* One connect call: the transports behave as outcomes says, the handshake as hs.
EnclaveConnect ==
    /\ net.calls < MaxCalls
    /\ \E outcomes \in [1 .. Len(net.routes) -> TransportOutcomes], hs \in HandshakeOutcomes :
         LET attempt == ConnectOrWait(net.mgr, net.routes, net.now, outcomes)
             state == ServiceInitializerConnect(attempt)
             r == connect(state, hs)
         IN  net' = [net EXCEPT
                       !.routes = attempt.routes,
                       !.calls = @ + 1,
                       !.op = "connect",
                       !.state = state.tag,
                       !.res = r.res,
                       !.invoked = attempt.log,
                       !.handshake = r.handshake,
                       !.hs = IF r.handshake THEN hs ELSE "none"]
    /\ UNCHANGED <<pb, frame, handler, result, arrival, accepted, nAccount, limit, refused, push, doh, pur>>

\* Time passes between two connect calls.
EnclaveTick ==
    /\ net.now < MaxTime
    /\ net' = [net EXCEPT !.now = @ + 1, !.op = "tick"]
    /\ UNCHANGED <<pb, frame, handler, result, arrival, accepted, nAccount, limit, refused, push, doh, pur>>

NextEnclave ==
    \/ EnclaveConnect
    \/ EnclaveTick

SpecEnclave == InitEnclave /\ [][NextEnclave]_vars

\* A connect call that installs no cooldown window reaching past the end of
\* the clock.
EnclaveConnectInTime ==
    /\ EnclaveConnect
    /\ \A i \in DOMAIN net.routes : net'.routes[i] <= MaxTime

NextEnclaveFair ==
    \/ EnclaveConnectInTime
    \/ EnclaveTick

\* The same system with time that does not stop: a tick that can be taken is
\* taken in the end.
SpecEnclaveFair == InitEnclave /\ [][NextEnclaveFair]_vars /\ WF_vars(EnclaveTick)

\* Every route of the manager is inside its cooldown window.
AllInCooldown(n) == \A i \in 1 .. Len(n.routes) : n.now < n.routes[i]

\* The transport connector was invoked on every route and failed on each.
AllRoutesFailed(n) ==
    /\ Len(n.invoked) = Len(n.routes)
    /\ \A i \in 1 .. Len(n.invoked) :
         n.invoked[i].route = i /\ n.invoked[i].outcome = "TcpConnectionFailed"

\* C11: on a single-route manager whose route is in cooldown after a failed
\* attempt, every connect call made inside the window returns
\* ConnectionTimedOut and does not invoke the transport connector.
C11_SingleRouteCooldown ==
    [][(net'.op = "connect" /\ net'.calls = net.calls + 1 /\ net.mgr = "single"
          /\ net.now < net.routes[1])
       => /\ net'.res = ConnectionTimedOut
          /\ net'.invoked = <<>>
          /\ net'.routes = net.routes]_vars

\* C11 witness: after a failed attempt, a connect call made inside the cooldown
\* window timed out with no transport invoked.
C11_Witness ==
    /\ net.mgr = "single"
    /\ net.op = "connect"
    /\ net.calls >= 2
    /\ net.now < net.routes[1]
    /\ net.res = ConnectionTimedOut
    /\ net.invoked = <<>>

\* C12: when every inner route of a multi-route manager is in cooldown, connect
\* returns ConnectionTimedOut, starts no handshake and returns no connection.
C12_MultiRouteExhaustion ==
    [][(net'.op = "connect" /\ net'.calls = net.calls + 1 /\ net.mgr = "multi"
          /\ AllInCooldown(net))
       => /\ net'.res = ConnectionTimedOut
          /\ net'.state = "Cooldown"
          /\ ~net'.handshake
          /\ net'.invoked = <<>>]_vars

\* C12 witness: a connect call on a multi-route manager whose routes are all
\* still in cooldown timed out.
C12_Witness ==
    /\ net.mgr = "multi"
    /\ net.op = "connect"
    /\ net.calls >= 2
    /\ AllInCooldown(net)
    /\ net.invoked = <<>>
    /\ net.res = ConnectionTimedOut

\* C13: on a fresh single-route manager, a connect whose transport fails
\* returns WebSocketConnect carrying the transport error, not ConnectionTimedOut.
C13_SingleRouteFirstFailure ==
    [][(net'.op = "connect" /\ net.calls = 0 /\ net'.calls = 1 /\ net.mgr = "single"
          /\ net'.invoked = <<[route |-> 1, outcome |-> "TcpConnectionFailed"]>>)
       => net'.res = WebSocketConnect("TcpConnectionFailed")]_vars

\* C13 witness: the first connect call of a single-route manager failed at the
\* transport.
C13_Witness ==
    /\ net.mgr = "single"
    /\ net.calls = 1
    /\ net.invoked = <<[route |-> 1, outcome |-> "TcpConnectionFailed"]>>
    /\ net.res.tag = "WebSocketConnect"

\* C14: on a fresh multi-route manager whose every route fails at the
\* transport, one connect call returns ConnectionTimedOut.
C14_MultiRouteAllFail ==
    [][(net'.op = "connect" /\ net.calls = 0 /\ net'.calls = 1 /\ net.mgr = "multi"
          /\ AllRoutesFailed(net'))
       => net'.res = ConnectionTimedOut]_vars

\* C14 witness: the first connect call of a multi-route manager tried and
\* failed every route and timed out.
C14_Witness ==
    /\ net.mgr = "multi"
    /\ net.calls = 1
    /\ AllRoutesFailed(net)
    /\ net.res = ConnectionTimedOut

\* The step is a connect call.
Connects == net'.op = "connect" /\ net'.calls = net.calls + 1

\* C26: in one connect call on a multi-route manager the transport is invoked
\* on the routes in their configured order, on no route that is in cooldown,
\* on every other route up to the first that connects, and on none after it.
C26_MultiRouteOrder ==
    [][(Connects /\ net.mgr = "multi") =>
          LET log == net'.invoked
              tried == {log[k].route : k \in 1 .. Len(log)}
              connected == {log[k].route : k \in {j \in 1 .. Len(log) : log[j].outcome = "ok"}}
              open == {i \in 1 .. Len(net.routes) : net.now >= net.routes[i]}
          IN  /\ \A k \in 1 .. Len(log) - 1 : log[k].route < log[k + 1].route
              /\ tried \subseteq open
              /\ \A k \in 1 .. Len(log) : log[k].outcome = "ok" => k = Len(log)
              /\ IF connected = {}
                 THEN tried = open /\ net'.state # "Active"
                 ELSE /\ net'.state = "Active"
                      /\ \A i \in connected : tried = {j \in open : j <= i}]_vars

\* C26 witness: the first route was in cooldown and was passed over, the second
\* was tried and failed, the third connected.
C26_Witness ==
    /\ net.mgr = "multi"
    /\ net.op = "connect"
    /\ net.now < net.routes[1]
    /\ net.invoked = <<[route |-> 2, outcome |-> "TcpConnectionFailed"],
                       [route |-> 3, outcome |-> "ok"]>>
    /\ net.state = "Active"

\* C27 as stated: connect returns a connection only after an Active WebSocket
\* and a successful handshake, starts no handshake after Error, Cooldown or
\* ConnectionTimedOut, and every failed handshake returns AttestationError.
C27_Original ==
    [][Connects =>
          /\ net'.res.tag = "Ok" => (net'.state = "Active" /\ net'.handshake /\ net'.hs = "ok")
          /\ net'.state \in {"Error", "Cooldown", "ConnectionTimedOut"} => ~net'.handshake
          /\ (net'.handshake /\ net'.hs # "ok") => net'.res.tag = "AttestationError"]_vars

\* C27 amended: connect returns a connection only after an Active WebSocket
\* and a successful handshake, starts no handshake after Error, Cooldown or
\* ConnectionTimedOut, and a failed handshake returns no connection but an
\* error: AttestationError when the attestation itself failed (Sgx), WebSocket
\* or Protocol when the handshake failed on the WebSocket, on the protocol or
\* in the client connection.
C27_AttestedOnly ==
    [][Connects =>
          /\ net'.res.tag = "Ok" => (net'.state = "Active" /\ net'.handshake /\ net'.hs = "ok")
          /\ net'.state \in {"Error", "Cooldown", "ConnectionTimedOut"} => ~net'.handshake
          /\ net'.state = "Active" => net'.handshake
          /\ (net'.handshake /\ net'.hs # "ok") =>
                /\ net'.res.tag # "Ok"
                /\ net'.hs = "Sgx" => net'.res = AttestationError("err")
                /\ net'.hs = "WebSocket" => net'.res.tag = "WebSocket"
                /\ net'.hs \in {"Protocol", "ClientConnection"} => net'.res.tag = "Protocol"]_vars

\* C27 witness: on an Active WebSocket the attestation failed and connect
\* returned AttestationError.
C27_Witness ==
    /\ net.op = "connect"
    /\ net.state = "Active"
    /\ net.handshake
    /\ net.hs = "Sgx"
    /\ net.res.tag = "AttestationError"

\* C28: what connect returns is fixed by the manager's outcome and, on an
\* Active WebSocket, by the handshake: Error(e) gives WebSocketConnect(e),
\* Cooldown and ConnectionTimedOut give ConnectionTimedOut, a handshake error
\* WebSocket gives WebSocket, Protocol and ClientConnection give Protocol,
\* Sgx gives AttestationError; a failing connect returns one of these five
\* errors, and connect never sees the Inactive state.
C28_FailureMapping ==
    [][Connects =>
          /\ net'.state \in {"Active", "Error", "Cooldown", "ConnectionTimedOut"}
          /\ net'.res.tag \in {"Ok", "WebSocketConnect", "WebSocket", "Protocol",
                               "AttestationError", "ConnectionTimedOut"}
          /\ net'.state = "Error" =>
                /\ net'.res.tag = "WebSocketConnect"
                /\ \E k \in 1 .. Len(net'.invoked) : net'.res.e = net'.invoked[k].outcome
          /\ net'.state \in {"Cooldown", "ConnectionTimedOut"} => net'.res = ConnectionTimedOut
          /\ net'.state = "Active" =>
                net'.res.tag = (CASE net'.hs = "ok" -> "Ok"
                                  [] net'.hs = "WebSocket" -> "WebSocket"
                                  [] net'.hs \in {"Protocol", "ClientConnection"} -> "Protocol"
                                  [] net'.hs = "Sgx" -> "AttestationError")]_vars

\* C28 witness: the client connection failed in the handshake on an Active
\* WebSocket and connect returned Protocol.
C28_Witness ==
    /\ net.op = "connect"
    /\ net.state = "Active"
    /\ net.hs = "ClientConnection"
    /\ net.res = ProtocolErr

\* Route i of the manager is inside its cooldown window.
InCooldown(i) == i \in DOMAIN net.routes /\ net.now < net.routes[i]

\* C29: a connect call does not invoke the transport of a route that is in
\* cooldown, and on a single-route manager times out; at or after the end of
\* the window the route is attempted again, and an attempt whose transport
\* succeeds makes the service Active; every route in cooldown comes out of it.
C29_CooldownTemporary ==
    /\ [][Connects =>
            /\ \A i \in DOMAIN net.routes :
                 net.now < net.routes[i] =>
                    \A k \in 1 .. Len(net'.invoked) : net'.invoked[k].route # i
            /\ (net.mgr = "single" /\ net.now < net.routes[1]) => net'.res = ConnectionTimedOut
            /\ (net.mgr = "single" /\ net.now >= net.routes[1]) =>
                 /\ Len(net'.invoked) = 1
                 /\ net'.invoked[1].route = 1
                 /\ net'.invoked[1].outcome = "ok" => net'.state = "Active"]_vars
    /\ \A i \in 1 .. NumRoutes : InCooldown(i) ~> ~InCooldown(i)

\* C29 witness: a route that failed and went into cooldown was attempted
\* again after the window and the service became Active.
C29_Witness ==
    /\ net.mgr = "single"
    /\ net.op = "connect"
    /\ net.routes[1] > 0
    /\ net.now >= net.routes[1]
    /\ net.invoked = <<[route |-> 1, outcome |-> "ok"]>>
    /\ net.state = "Active"
    /\ net.res = Attested

\* ------------------------------------------ concurrent connect calls
\* The connect calls that run at the same time on one multi-route manager.
Tasks == {1, 2}

\* What the WebSocket upgrade does on a connected transport stream.
UpgradeOutcomes == {"ok", "Http"}

\* The suspension points of a connect call.
InFlight == {"transport", "upgrade", "handshake"}

\* The read of a route's cooldown state: the route may be attempted now.
RouteAttemptable(next_attempt, now) == ~(now < next_attempt)

\* A variant of the update in which the write of a failed attempt is lost.
RouteFailed_Lost(next_attempt, now) == next_attempt

\* The update of a route's cooldown state after a failed attempt: the next
\* attempt is allowed a cooldown window from now.
RouteFailed(next_attempt, now) == now + CooldownWindow

\* A task that runs no connect call.
NoTask == [pc |-> "idle", route |-> 0, was |-> 0, res |-> "none"]

\* The step a task has just taken, with the ConnectionAttemptOutcome it
\* observed for the route, if the step ended the attempt on it, and the
\* suspension point, if the step dropped the future.
OpAt(name, t, i, seen, at) ==
    [name |-> name, task |-> t, route |-> i, seen |-> seen, at |-> at]

Op(name, t, i, seen) == OpAt(name, t, i, seen, "none")

\* The multi-route manager of the tests, shared by the tasks, before any
\* attempt.
InitConnect ==
    /\ net = [routes |-> [i \in 1 .. NumRoutes |-> 0],
              now |-> 0,
              calls |-> 0,
              tasks |-> [t \in Tasks |-> NoTask],
              op |-> Op("new", 0, 0, "none")]
    /\ pb = Idle /\ frame = Idle /\ handler = Idle /\ result = Idle
    /\ arrival = Idle /\ accepted = Idle /\ nAccount = Idle /\ limit = Idle /\ refused = Idle
    /\ push = Idle /\ doh = Idle /\ pur = Idle

\* Task t calls connect: the future is built and polled up to the first read
\* of the manager.
ConnectStart(t) ==
    /\ net.tasks[t].pc \in {"idle", "done"}
    /\ net.calls < MaxCalls
    /\ net' = [net EXCEPT
                 !.calls = @ + 1,
                 !.tasks[t] = [pc |-> "select", route |-> 1, was |-> 0, res |-> "none"],
                 !.op = Op("start", t, 0, "none")]
    /\ UNCHANGED <<pb, frame, handler, result, arrival, accepted, nAccount, limit, refused, push, doh, pur>>

\* Task t reads the cooldown state of its route in one step: WaitUntil for a
\* route in cooldown, else the attempt starts and the task suspends in the
\* transport connect. With no route left the manager answers WaitUntil, which
\* connect returns as ConnectionTimedOut.
ConnectCheck(t) ==
    /\ net.tasks[t].pc = "select"
    /\ LET i == net.tasks[t].route IN
       IF i > Len(net.routes)
       THEN LET state == ServiceInitializerConnect(
                            [tag |-> "WaitUntil",
                             at |-> Min({net.routes[r] : r \in 1 .. Len(net.routes)}),
                             e |-> "none"])
            IN  net' = [net EXCEPT
                          !.tasks[t] = [@ EXCEPT !.pc = "done",
                                                  !.res = connect(state, "none").res.tag],
                          !.op = Op("return", t, 0, "none")]
       ELSE IF RouteAttemptable(net.routes[i], net.now)
       THEN net' = [net EXCEPT
                      !.tasks[t] = [@ EXCEPT !.pc = "transport", !.was = net.routes[i]],
                      !.op = Op("begin", t, i, "none")]
       ELSE net' = [net EXCEPT
                      !.tasks[t] = [@ EXCEPT !.route = i + 1],
                      !.op = Op("check", t, i, "WaitUntil")]
    /\ UNCHANGED <<pb, frame, handler, result, arrival, accepted, nAccount, limit, refused, push, doh, pur>>

\* The attempt of task t on its route has failed: the route goes into
\* cooldown in one step and the task moves on to the next route.
AttemptFailed(t, name, seen) ==
    LET i == net.tasks[t].route
        next == RouteFailed(net.routes[i], net.now)
    IN  net' = [net EXCEPT
                  !.routes[i] = next,
                  !.tasks = [u \in Tasks |->
                               IF u = t THEN [net.tasks[t] EXCEPT !.pc = "select", !.route = i + 1]
                               ELSE IF net.tasks[u].pc \in InFlight /\ net.tasks[u].route = i
                               THEN [net.tasks[u] EXCEPT !.was = next]
                               ELSE net.tasks[u]],
                  !.op = Op(name, t, i, seen)]

\* The transport connect of task t completes.
ConnectTransport(t) ==
    /\ net.tasks[t].pc = "transport"
    /\ \E outcome \in TransportOutcomes :
         CASE outcome = "ok" ->
                net' = [net EXCEPT !.tasks[t].pc = "upgrade",
                                   !.op = Op("connected", t, net.tasks[t].route, "none")]
           [] outcome = "elapsed" -> AttemptFailed(t, "fail", "TimedOut")
           [] OTHER -> AttemptFailed(t, "fail", "Attempted")
    /\ UNCHANGED <<pb, frame, handler, result, arrival, accepted, nAccount, limit, refused, push, doh, pur>>

\* The WebSocket upgrade of task t completes: the service is Active and the
\* task suspends in the attestation handshake, or the attempt has failed.
ConnectUpgrade(t) ==
    /\ net.tasks[t].pc = "upgrade"
    /\ \E outcome \in UpgradeOutcomes :
         IF outcome = "ok"
         THEN net' = [net EXCEPT !.tasks[t].pc = "handshake",
                                 !.op = Op("active", t, net.tasks[t].route, "Attempted")]
         ELSE AttemptFailed(t, "fail", "Attempted")
    /\ UNCHANGED <<pb, frame, handler, result, arrival, accepted, nAccount, limit, refused, push, doh, pur>>

\* The attestation handshake of task t completes and connect returns.
ConnectHandshake(t) ==
    /\ net.tasks[t].pc = "handshake"
    /\ \E hs \in HandshakeOutcomes :
         net' = [net EXCEPT
                   !.tasks[t] = [@ EXCEPT !.pc = "done",
                                           !.res = connect([tag |-> "Active", e |-> "none"], hs).res.tag],
                   !.op = Op("return", t, net.tasks[t].route, "none")]
    /\ UNCHANGED <<pb, frame, handler, result, arrival, accepted, nAccount, limit, refused, push, doh, pur>>

\* A variant of the cancellation in which the dropped attempt counts as a
\* failure of its route.
ConnectCancel_MarksRoute(t) ==
    /\ net.tasks[t].pc \in InFlight
    /\ net' = [net EXCEPT
                 !.routes[net.tasks[t].route] = net.now + CooldownWindow,
                 !.tasks[t] = [NoTask EXCEPT !.was = net.tasks[t].was],
                 !.op = OpAt("cancel", t, net.tasks[t].route, "none", net.tasks[t].pc)]
    /\ UNCHANGED <<pb, frame, handler, result, arrival, accepted, nAccount, limit, refused, push, doh, pur>>

\* The future of task t is dropped at a suspension point: the stream in
\* flight goes with it and the manager is not touched.
ConnectCancel(t) ==
    /\ net.tasks[t].pc \in InFlight
    /\ net' = [net EXCEPT
                 !.tasks[t] = [NoTask EXCEPT !.was = net.tasks[t].was],
                 !.op = OpAt("cancel", t, net.tasks[t].route, "none", net.tasks[t].pc)]
    /\ UNCHANGED <<pb, frame, handler, result, arrival, accepted, nAccount, limit, refused, push, doh, pur>>

\* Time passes.
ConnectTick ==
    /\ net.now < MaxTime
    /\ net' = [net EXCEPT !.now = @ + 1, !.op = Op("tick", 0, 0, "none")]
    /\ UNCHANGED <<pb, frame, handler, result, arrival, accepted, nAccount, limit, refused, push, doh, pur>>

NextConnect ==
    \/ \E t \in Tasks : ConnectStart(t)
    \/ \E t \in Tasks : ConnectCheck(t)
    \/ \E t \in Tasks : ConnectTransport(t)
    \/ \E t \in Tasks : ConnectUpgrade(t)
    \/ \E t \in Tasks : ConnectHandshake(t)
    \/ \E t \in Tasks : ConnectCancel(t)
    \/ ConnectTick

SpecConnect == InitConnect /\ [][NextConnect]_vars

\* Task t drops its future in this step.
Cancels(t) == net.tasks[t].pc \in InFlight /\ net'.op.name = "cancel" /\ net'.op.task = t

MaxRequests == 2

\* Text is a sequence of one-character strings.
UpperCase ==
    <<"A", "B", "C", "D", "E", "F", "G", "H", "I", "J", "K", "L", "M", "N", "O", "P", "Q",
      "R", "S", "T", "U", "V", "W", "X", "Y", "Z">>
LowerCase ==
    <<"a", "b", "c", "d", "e", "f", "g", "h", "i", "j", "k", "l", "m", "n", "o", "p", "q",
      "r", "s", "t", "u", "v", "w", "x", "y", "z">>
DigitChars == <<"0", "1", "2", "3", "4", "5", "6", "7", "8", "9">>
WhiteSpace == {" ", "\t"}

\* u8::to_ascii_lowercase
AsciiLowercase ==
    [c \in {UpperCase[i] : i \in 1 .. Len(UpperCase)} |->
        LowerCase[CHOOSE i \in 1 .. Len(UpperCase) : UpperCase[i] = c]]
ToAsciiLowercase(c) == IF c \in DOMAIN AsciiLowercase THEN AsciiLowercase[c] ELSE c

\* str::eq_ignore_ascii_case
EqIgnoreAsciiCase(a, b) ==
    /\ Len(a) = Len(b)
    /\ \A i \in 1 .. Len(a) : ToAsciiLowercase(a[i]) = ToAsciiLowercase(b[i])

\* str::trim
RECURSIVE TrimStart(_)
TrimStart(t) ==
    IF t # <<>> /\ Head(t) \in WhiteSpace THEN TrimStart(Tail(t)) ELSE t

RECURSIVE TrimEnd(_)
TrimEnd(t) ==
    IF t # <<>> /\ t[Len(t)] \in WhiteSpace THEN TrimEnd(SubSeq(t, 1, Len(t) - 1)) ELSE t

Trim(t) == TrimEnd(TrimStart(t))

\* str::split_once(':'): the text before and after the first colon.
RECURSIVE SplitFrom(_, _)
SplitFrom(t, i) ==
    IF i > Len(t) THEN None
    ELSE IF t[i] = ":"
    THEN Some([name |-> SubSeq(t, 1, i - 1), value |-> SubSeq(t, i + 1, Len(t))])
    ELSE SplitFrom(t, i + 1)

SplitOnce(t) == SplitFrom(t, 1)

\* The digits of u64::MAX.
U64Max ==
    <<"1", "8", "4", "4", "6", "7", "4", "4", "0", "7", "3", "7", "0", "9", "5", "5", "1",
      "6", "1", "5">>

Digits == {DigitChars[i] : i \in 1 .. Len(DigitChars)}
DigitValues == [c \in Digits |-> (CHOOSE i \in 1 .. Len(DigitChars) : DigitChars[i] = c) - 1]
DigitValue(c) == DigitValues[c]

\* a <= b for two digit strings of one length.
RECURSIVE DigitsLeq(_, _)
DigitsLeq(a, b) ==
    IF a = <<>> THEN TRUE
    ELSE IF DigitValue(Head(a)) < DigitValue(Head(b)) THEN TRUE
    ELSE IF DigitValue(Head(a)) > DigitValue(Head(b)) THEN FALSE
    ELSE DigitsLeq(Tail(a), Tail(b))

RECURSIVE StripZeros(_)
StripZeros(d) ==
    IF Len(d) > 1 /\ Head(d) = "0" THEN StripZeros(Tail(d)) ELSE d

\* The u64 zero, and u64::default().
Zero == <<"0">>

\* str::parse::<u64>().ok(): an optional plus sign, then one or more decimal
\* digits of a number that fits 64 bits. A u64 is kept as its decimal digits.
ParseU64(t) ==
    LET d == IF t # <<>> /\ Head(t) = "+" THEN Tail(t) ELSE t
        n == StripZeros(d)
    IN  IF d = <<>> \/ \E i \in 1 .. Len(d) : d[i] \notin Digits
        THEN None
        ELSE IF Len(n) > Len(U64Max) \/ (Len(n) = Len(U64Max) /\ ~DigitsLeq(n, U64Max))
        THEN None
        ELSE Some(n)

XSignalTimestamp ==
    <<"x", "-", "s", "i", "g", "n", "a", "l", "-", "t", "i", "m", "e", "s", "t", "a", "m",
      "p">>

\* The closure of the filter_map over the headers: the parsed value of a
\* header named x-signal-timestamp, None for any other header.
HeaderTimestamp(header) ==
    LET split == SplitOnce(header) IN
    IF split = None THEN None
    ELSE IF EqIgnoreAsciiCase(split[1].name, XSignalTimestamp)
    THEN ParseU64(Trim(split[1].value))
    ELSE None

\* Iterator::filter_map with the closure above.
RECURSIVE FilterMapTimestamps(_)
FilterMapTimestamps(headers) ==
    IF headers = <<>> THEN <<>>
    ELSE HeaderTimestamp(Head(headers)) \o FilterMapTimestamps(Tail(headers))

\* A variant of raw_timestamp that takes the first parsed value (Iterator::next).
raw_timestamp_First(headers) ==
    LET values == FilterMapTimestamps(headers) IN
    IF values = <<>> THEN None ELSE Some(values[1])

\* raw_timestamp: Iterator::last of the parsed values.
raw_timestamp(headers) ==
    LET values == FilterMapTimestamps(headers) IN
    IF values = <<>> THEN None ELSE Some(values[Len(values)])

\* Option::unwrap_or_default
UnwrapOrDefault(opt, default) == IF opt = None THEN default ELSE opt[1]

\* The items of the output stream. An IncomingMessage holds the send_ack
\* future of the response sink it was built from; a future does nothing
\* until it is awaited.
QueueEmpty ==
    [kind |-> "QueueEmpty", request_id |-> 0, envelope |-> "",
     server_delivery_timestamp |-> Zero, send_ack |-> None]
IncomingMessage(request_id, envelope, timestamp, sink) ==
    [kind |-> "IncomingMessage", request_id |-> request_id, envelope |-> envelope,
     server_delivery_timestamp |-> timestamp, send_ack |-> Some(sink)]

MessagePath == "/api/v1/message"
QueueEmptyPath == "/api/v1/queue/empty"

\* A variant of the closure that does not look at the verb.
stream_incoming_messages_AnyVerb(request, sink) ==
    LET path == UnwrapOrDefault(request.path, "") IN
    CASE path = QueueEmptyPath -> [item |-> Some(QueueEmpty), sent |-> <<>>]
      [] path = MessagePath ->
           [item |-> Some(IncomingMessage(request.id,
                                          UnwrapOrDefault(request.body, ""),
                                          UnwrapOrDefault(raw_timestamp(request.headers), Zero),
                                          sink)),
            sent |-> <<>>]
      [] OTHER -> [item |-> None, sent |-> <<>>]

\* A variant of the closure that answers 200 OK as soon as it builds the message.
stream_incoming_messages_EagerAck(request, sink) ==
    IF request.verb # "PUT" THEN [item |-> None, sent |-> <<>>]
    ELSE LET path == UnwrapOrDefault(request.path, "") IN
         CASE path = QueueEmptyPath -> [item |-> Some(QueueEmpty), sent |-> <<>>]
           [] path = MessagePath ->
                [item |-> Some(IncomingMessage(request.id,
                                               UnwrapOrDefault(request.body, ""),
                                               UnwrapOrDefault(raw_timestamp(request.headers), Zero),
                                               sink)),
                 sent |-> <<sink>>]
           [] OTHER -> [item |-> None, sent |-> <<>>]

\* The filter_map closure of stream_incoming_messages on one (request, response
\* sink) pair: the item it yields, if any, and the sinks it answers itself.
stream_incoming_messages(request, sink) ==
    IF request.verb # "PUT" THEN [item |-> None, sent |-> <<>>]
    ELSE LET path == UnwrapOrDefault(request.path, "") IN
         CASE path = QueueEmptyPath -> [item |-> Some(QueueEmpty), sent |-> <<>>]
           [] path = MessagePath ->
                [item |-> Some(IncomingMessage(request.id,
                                               UnwrapOrDefault(request.body, ""),
                                               UnwrapOrDefault(raw_timestamp(request.headers), Zero),
                                               sink)),
                 sent |-> <<>>]
           [] OTHER -> [item |-> None, sent |-> <<>>]

\* ResponseSender::send_response(200 OK), awaited: the response goes to the sink.
SendResponse(responses, sink) == Append(responses, sink)

\* Header lines the server may send.
HdrPlain == XSignalTimestamp \o <<":", "1", "0", "0", "0">>
HdrMixedCase ==
    <<"X", "-", "S", "i", "g", "n", "a", "l", "-", "T", "i", "m", "e", "s", "t", "a", "m",
      "p">> \o <<":", " ", "2", "0", "0", "0", " ">>
HdrNotNumber == XSignalTimestamp \o <<":", "1", "2", "a">>
HdrOverflow == XSignalTimestamp \o <<":">> \o SubSeq(U64Max, 1, Len(U64Max) - 1) \o <<"6">>
HdrOtherName == <<"x", "-", "t", "s">> \o <<":", "3", "0", "0", "0">>
HdrNoColon == XSignalTimestamp \o <<" ", "4", "0", "0", "0">>

Headers == {HdrPlain, HdrMixedCase, HdrNotNumber, HdrOverflow, HdrOtherName, HdrNoColon}
HeaderLists == {<<>>} \cup {<<h>> : h \in Headers} \cup {<<h, g>> : h, g \in Headers}

Verbs == {"PUT", "GET"}
Paths == {None, Some(""), Some(QueueEmptyPath), Some(MessagePath), Some("/api/v1/other")}
Bodies == {None, Some("envelope")}
RequestIds == {1, 2}

\* The requests a server may send: every verb and path, and for a message
\* every list of headers.
Requests ==
    [id : RequestIds, verb : Verbs, path : Paths, body : Bodies, headers : {<<>>}]
    \cup [id : {1}, verb : {"PUT"}, path : {Some(MessagePath)}, body : {Some("envelope")},
          headers : HeaderLists]

\* A chat connection whose request channel has delivered nothing yet.
InitDemux ==
    /\ push = [request |-> None,
               item |-> None,
               log |-> <<>>,
               responses |-> <<>>,
               dropped |-> FALSE,
               op |-> "new"]
    /\ pb = Idle /\ frame = Idle /\ handler = Idle /\ result = Idle
    /\ arrival = Idle /\ accepted = Idle /\ nAccount = Idle /\ limit = Idle /\ refused = Idle
    /\ net = Idle /\ doh = Idle /\ pur = Idle

\* The stream is polled and takes the next request off the channel. The log
\* keeps, per request, the kind of the item yielded and where its send_ack is.
DemuxReceive ==
    /\ ~push.dropped
    /\ Len(push.log) < MaxRequests
    /\ \E request \in Requests :
         LET sink == Len(push.log) + 1
             r == stream_incoming_messages(request, sink)
             kind == IF r.item = None THEN "dropped" ELSE r.item[1].kind
             ack == IF r.item # None /\ r.item[1].send_ack # None THEN "pending" ELSE "none"
         IN  push' = [push EXCEPT
                        !.request = Some(request),
                        !.item = r.item,
                        !.log = Append(@, [kind |-> kind, ack |-> ack]),
                        !.responses = @ \o r.sent,
                        !.op = "receive"]
    /\ UNCHANGED <<pb, frame, handler, result, arrival, accepted, nAccount, limit, refused, net, doh, pur>>

\* The consumer awaits the send_ack of a message it holds.
ConsumerAck ==
    /\ \E sink \in 1 .. Len(push.log) :
         /\ push.log[sink].ack = "pending"
         /\ push' = [push EXCEPT
                       !.log[sink].ack = "awaited",
                       !.responses = SendResponse(@, sink),
                       !.op = "ack"]
    /\ UNCHANGED <<pb, frame, handler, result, arrival, accepted, nAccount, limit, refused, net, doh, pur>>

\* The consumer drops a message it holds without awaiting its send_ack.
ConsumerDiscard ==
    /\ \E sink \in 1 .. Len(push.log) :
         /\ push.log[sink].ack = "pending"
         /\ push' = [push EXCEPT !.log[sink].ack = "released", !.op = "discard"]
    /\ UNCHANGED <<pb, frame, handler, result, arrival, accepted, nAccount, limit, refused, net, doh, pur>>

\* The consumer drops the stream: no further request is taken off the channel.
StreamDrop ==
    /\ ~push.dropped
    /\ push' = [push EXCEPT !.dropped = TRUE, !.op = "drop"]
    /\ UNCHANGED <<pb, frame, handler, result, arrival, accepted, nAccount, limit, refused, net, doh, pur>>

NextDemux ==
    \/ DemuxReceive
    \/ ConsumerAck
    \/ ConsumerDiscard
    \/ StreamDrop

SpecDemux == InitDemux /\ [][NextDemux]_vars

\* The step takes a request off the channel.
Receives == push'.op = "receive" /\ Len(push'.log) = Len(push.log) + 1

\* C15: a request whose verb is not PUT yields nothing, a PUT whose path is
\* missing, empty or unknown yields nothing, a PUT to /api/v1/queue/empty
\* yields one QueueEmpty, a PUT to /api/v1/message yields one IncomingMessage
\* with the request's id and its body (empty when absent); after a request
\* that yielded nothing the stream still takes the next request.
C15_PathFiltering ==
    [][/\ Receives =>
            LET request == push'.request[1]
                item == push'.item
                put == request.verb = "PUT"
            IN  /\ ~put => item = None
                /\ (put /\ request.path \notin {Some(QueueEmptyPath), Some(MessagePath)})
                      => item = None
                /\ (put /\ request.path = Some(QueueEmptyPath))
                      => (item # None /\ item[1].kind = "QueueEmpty")
                /\ (put /\ request.path = Some(MessagePath))
                      => /\ item # None
                         /\ item[1].kind = "IncomingMessage"
                         /\ item[1].request_id = request.id
                         /\ item[1].envelope = (IF request.body = None THEN "" ELSE request.body[1])
       /\ (/\ push.log # <<>>
           /\ push.log[Len(push.log)].kind = "dropped"
           /\ ~push.dropped
           /\ Len(push.log) < MaxRequests)
            => ENABLED DemuxReceive]_vars

\* C15 witness: a request that is not a PUT yielded nothing, and the PUT to
\* /api/v1/message sent after it, without a body, yielded an IncomingMessage
\* with an empty envelope.
C15_Witness ==
    /\ push.op = "receive"
    /\ Len(push.log) = 2
    /\ push.log[1].kind = "dropped"
    /\ push.request[1].verb = "PUT"
    /\ push.request[1].path = Some(MessagePath)
    /\ push.request[1].body = None
    /\ push.item # None
    /\ push.item[1].kind = "IncomingMessage"
    /\ push.item[1].envelope = ""

\* The header is named x-signal-timestamp, in any case, and the text after
\* its first colon, trimmed, is a u64.
MatchesAndParses(header) ==
    /\ SplitOnce(header) # None
    /\ EqIgnoreAsciiCase(SplitOnce(header)[1].name, XSignalTimestamp)
    /\ ParseU64(Trim(SplitOnce(header)[1].value)) # None

TimestampValue(header) == ParseU64(Trim(SplitOnce(header)[1].value))[1]

\* The headers of the server that match and parse, and their values.
MatchingHeaders == {header \in Headers : MatchesAndParses(header)}
MatchingValues == [header \in MatchingHeaders |-> TimestampValue(header)]

\* C16: the server_delivery_timestamp of an IncomingMessage is the value of
\* the last header that is named x-signal-timestamp (in any case) and whose
\* trimmed value parses as a u64, and zero when there is no such header.
C16_TimestampRule ==
    [][(Receives /\ push'.item # None /\ push'.item[1].kind = "IncomingMessage") =>
          LET headers == push'.request[1].headers
              good == {i \in 1 .. Len(headers) : headers[i] \in MatchingHeaders}
              timestamp == push'.item[1].server_delivery_timestamp
          IN  IF good = {}
              THEN timestamp = Zero
              ELSE timestamp = MatchingValues[headers[CHOOSE i \in good : \A j \in good : j <= i]]]_vars

\* C16 witness: a message with two parsable timestamp headers of different
\* values got the value of the second one.
C16_Witness ==
    /\ push.op = "receive"
    /\ push.item # None
    /\ push.item[1].kind = "IncomingMessage"
    /\ push.request[1].headers = <<HdrPlain, HdrMixedCase>>
    /\ push.item[1].server_delivery_timestamp = <<"2", "0", "0", "0">>

\* C17: every IncomingMessage carries the send_ack of its own request's sink
\* and QueueEmpty carries none; a response is sent only by a step in which the
\* consumer awaits the pending send_ack of a message, to that request's sink;
\* no sink gets two responses, and a request whose send_ack was not awaited
\* (the stream dropped or not), a QueueEmpty and a dropped request get none.
C17_DeferredAck ==
    [][/\ Receives =>
            /\ (push'.item # None /\ push'.item[1].kind = "IncomingMessage")
                  => push'.item[1].send_ack = Some(Len(push'.log))
            /\ (push'.item # None /\ push'.item[1].kind = "QueueEmpty")
                  => push'.item[1].send_ack = None
       /\ push'.responses # push.responses =>
            \E sink \in 1 .. Len(push.log) :
               /\ push.log[sink].kind = "IncomingMessage"
               /\ push.log[sink].ack = "pending"
               /\ push'.log[sink].ack = "awaited"
               /\ push'.op = "ack"
               /\ push'.responses = Append(push.responses, sink)
       /\ \A i, j \in 1 .. Len(push'.responses) :
            push'.responses[i] = push'.responses[j] => i = j
       /\ \A sink \in 1 .. Len(push'.log) :
            (\E i \in 1 .. Len(push'.responses) : push'.responses[i] = sink)
               <=> push'.log[sink].ack = "awaited"]_vars

\* C17 witness: of two messages the first was acknowledged and answered, the
\* second was not, and the stream was dropped: the second has no response.
C17_Witness ==
    /\ Len(push.log) = 2
    /\ push.log[1].kind = "IncomingMessage"
    /\ push.log[1].ack = "awaited"
    /\ push.log[2].kind = "IncomingMessage"
    /\ push.log[2].ack = "pending"
    /\ push.dropped
    /\ push.responses = <<1>>

\* ===================================================== DNS over HTTPS
ResourceTypes == {"A", "AAAA"}

\* dns::Result<DnsQueryResult> of one query; parsed tells whether
\* parse_response ran on the response body.
Left(addrs) == [tag |-> "Left", code |-> 0, val |-> addrs, parsed |-> TRUE]
Right(addrs) == [tag |-> "Right", code |-> 0, val |-> addrs, parsed |-> TRUE]
TransportFailure == [tag |-> "TransportFailure", code |-> 0, val |-> "none", parsed |-> FALSE]
DohRequestBadStatus(code) ==
    [tag |-> "DohRequestBadStatus", code |-> code, val |-> "none", parsed |-> FALSE]
RequestError == [tag |-> "RequestError", code |-> 0, val |-> "none", parsed |-> FALSE]
ParseError == [tag |-> "ParseError", code |-> 0, val |-> "none", parsed |-> TRUE]

\* What the HTTP client returns for one POST /dns-query: a failed exchange, or
\* a status and a body.
StatusCodes == {200, 204, 404}
ResponseBodies == {"answer", "malformed"}
Exchanges ==
    {[failed |-> TRUE, status |-> 0, body |-> "none"]}
    \cup [failed : {FALSE}, status : StatusCodes, body : ResponseBodies]

\* dns_message::create_request_with_id: the wire query, or an error for a
\* hostname that cannot be encoded.
CreateRequestWithId(hostname, resource_type) ==
    IF hostname = "valid" THEN Some([id |-> 0, hostname |-> hostname, type |-> resource_type])
    ELSE None

\* dns_message::parse_response with the closure for addresses of width bytes.
ParseResponse(body, family) ==
    IF body = "answer" THEN Some(family) ELSE None

\* A variant of send_request that takes every 2xx status for a success.
send_request_Any2xx(request, resource_type, exchange) ==
    IF CreateRequestWithId(request.hostname, resource_type) = None THEN RequestError
    ELSE IF exchange.failed THEN TransportFailure
    ELSE IF exchange.status \div 100 # 2 THEN DohRequestBadStatus(exchange.status)
    ELSE IF resource_type = "A"
    THEN (IF ParseResponse(exchange.body, "Ipv4Addr") = None THEN ParseError
          ELSE Left(ParseResponse(exchange.body, "Ipv4Addr")[1]))
    ELSE (IF ParseResponse(exchange.body, "Ipv6Addr") = None THEN ParseError
          ELSE Right(ParseResponse(exchange.body, "Ipv6Addr")[1]))

\* DohTransport::send_request, given what the HTTP exchange comes to.
send_request(request, resource_type, exchange) ==
    IF CreateRequestWithId(request.hostname, resource_type) = None THEN RequestError
    ELSE IF exchange.failed THEN TransportFailure
    ELSE IF exchange.status # 200 THEN DohRequestBadStatus(exchange.status)
    ELSE IF resource_type = "A"
    THEN (IF ParseResponse(exchange.body, "Ipv4Addr") = None THEN ParseError
          ELSE Left(ParseResponse(exchange.body, "Ipv4Addr")[1]))
    ELSE (IF ParseResponse(exchange.body, "Ipv6Addr") = None THEN ParseError
          ELSE Right(ParseResponse(exchange.body, "Ipv6Addr")[1]))

\* A variant of send_queries that never asks for AAAA records.
send_queries_OnlyA(request) == <<"A">>

\* DohTransport::send_queries: the resource types of the futures it creates,
\* in the order of the vec.
send_queries(request) ==
    IF request.ipv6_enabled THEN <<"AAAA", "A">> ELSE <<"A">>

NoExchange == [failed |-> FALSE, status |-> 0, body |-> "none"]

\* A connected transport that has been asked nothing.
InitDoh ==
    /\ doh = [request |-> None,
              tasks |-> <<>>,
              posted |-> <<>>,
              completed |-> <<>>,
              ready |-> <<>>,
              yielded |-> <<>>,
              op |-> "new"]
    /\ pb = Idle /\ frame = Idle /\ handler = Idle /\ result = Idle
    /\ arrival = Idle /\ accepted = Idle /\ nAccount = Idle /\ limit = Idle /\ refused = Idle
    /\ net = Idle /\ push = Idle /\ pur = Idle

\* send_queries is called: one future per resource type, none of them started.
SendQueries ==
    /\ doh.request = None
    /\ \E hostname \in {"valid", "invalid"}, ipv6_enabled \in BOOLEAN :
         LET request == [hostname |-> hostname, ipv6_enabled |-> ipv6_enabled]
             types == send_queries(request)
         IN  doh' = [doh EXCEPT
                       !.request = Some(request),
                       !.tasks = [i \in 1 .. Len(types) |->
                                    [type |-> types[i], pc |-> "created",
                                     exchange |-> NoExchange, result |-> RequestError]],
                       !.op = "send_queries"]
    /\ UNCHANGED <<pb, frame, handler, result, arrival, accepted, nAccount, limit, refused, net, push, pur>>

\* The future of task i is polled for the first time: it builds the query
\* and, if that works, posts it to /dns-query and waits for the response.
TaskStart(i) ==
    /\ i \in 1 .. Len(doh.tasks)
    /\ doh.tasks[i].pc = "created"
    /\ LET request == doh.request[1]
           type == doh.tasks[i].type
       IN  IF CreateRequestWithId(request.hostname, type) = None
           THEN doh' = [doh EXCEPT
                          !.tasks[i].pc = "done",
                          !.tasks[i].result = send_request(request, type, NoExchange),
                          !.completed = Append(@, i),
                          !.ready = Append(@, i),
                          !.op = "start"]
           ELSE doh' = [doh EXCEPT
                          !.tasks[i].pc = "posted",
                          !.posted = Append(@, type),
                          !.op = "start"]
    /\ UNCHANGED <<pb, frame, handler, result, arrival, accepted, nAccount, limit, refused, net, push, pur>>

\* The HTTP exchange of task i ends and the future runs to its end.
TaskRespond(i) ==
    /\ i \in 1 .. Len(doh.tasks)
    /\ doh.tasks[i].pc = "posted"
    /\ \E exchange \in Exchanges :
         doh' = [doh EXCEPT
                   !.tasks[i].pc = "done",
                   !.tasks[i].exchange = exchange,
                   !.tasks[i].result = send_request(doh.request[1], doh.tasks[i].type, exchange),
                   !.completed = Append(@, i),
                   !.ready = Append(@, i),
                   !.op = "respond"]
    /\ UNCHANGED <<pb, frame, handler, result, arrival, accepted, nAccount, limit, refused, net, push, pur>>

\* The stream is polled: FuturesUnordered hands out the next finished future.
StreamNext ==
    /\ doh.ready # <<>>
    /\ doh' = [doh EXCEPT
                 !.ready = Tail(@),
                 !.yielded = Append(@, [task |-> Head(doh.ready),
                                        result |-> doh.tasks[Head(doh.ready)].result]),
                 !.op = "next"]
    /\ UNCHANGED <<pb, frame, handler, result, arrival, accepted, nAccount, limit, refused, net, push, pur>>

NextDoh ==
    \/ SendQueries
    \/ \E i \in 1 .. Len(send_queries([ipv6_enabled |-> TRUE])) : TaskStart(i)
    \/ \E i \in 1 .. Len(send_queries([ipv6_enabled |-> TRUE])) : TaskRespond(i)
    \/ StreamNext

SpecDoh == InitDoh /\ [][NextDoh]_vars

\* C18: send_queries issues one AAAA and one A query when ipv6_enabled and
\* one A query otherwise; the stream yields the results of finished queries
\* in completion order, one per query, each the result of its own exchange
\* whatever became of the other query.
C18_QueryDispatch ==
    [][/\ doh'.request # None =>
            LET types == {doh'.tasks[i].type : i \in 1 .. Len(doh'.tasks)} IN
            /\ types = (IF doh'.request[1].ipv6_enabled THEN {"A", "AAAA"} ELSE {"A"})
            /\ Len(doh'.tasks) = Cardinality(types)
       /\ \A k \in 1 .. Len(doh'.posted) :
            Cardinality({j \in 1 .. Len(doh'.posted) : doh'.posted[j] = doh'.posted[k]}) = 1
       /\ Len(doh'.yielded) <= Len(doh'.completed)
       /\ \A k \in 1 .. Len(doh'.yielded) :
            LET i == doh'.yielded[k].task IN
            /\ i = doh'.completed[k]
            /\ doh'.tasks[i].pc = "done"
            /\ doh'.yielded[k].result =
                 send_request(doh'.request[1], doh'.tasks[i].type, doh'.tasks[i].exchange)
       /\ (doh.ready # <<>>) => ENABLED StreamNext
       /\ (doh'.request # None /\ doh'.ready = <<>>
             /\ \A i \in 1 .. Len(doh'.tasks) : doh'.tasks[i].pc = "done")
            => Len(doh'.yielded) = Len(doh'.tasks)]_vars

\* C18 witness: with ipv6_enabled the A query finished first and failed, the
\* AAAA query finished after it and succeeded, and both results were yielded
\* in that order.
C18_Witness ==
    /\ doh.request # None
    /\ doh.request[1].ipv6_enabled
    /\ Len(doh.yielded) = 2
    /\ doh.tasks[doh.yielded[1].task].type = "A"
    /\ doh.yielded[1].result.tag = "TransportFailure"
    /\ doh.tasks[doh.yielded[2].task].type = "AAAA"
    /\ doh.yielded[2].result.tag = "Right"

\* C19: a query whose HTTP exchange fails yields TransportFailure; a response
\* of a status other than 200 yields DohRequestBadStatus of that status and
\* its body is not parsed; a 200 response is parsed, and when the body parses
\* an A query yields Left and an AAAA query Right.
C19_ResponseHandling ==
    [][\A i \in 1 .. Len(doh.tasks) :
         (doh.tasks[i].pc = "posted" /\ doh'.tasks[i].pc = "done") =>
            LET exchange == doh'.tasks[i].exchange
                res == doh'.tasks[i].result
                type == doh'.tasks[i].type
            IN  /\ exchange.failed => res.tag = "TransportFailure"
                /\ (~exchange.failed /\ exchange.status # 200)
                      => /\ res.tag = "DohRequestBadStatus"
                         /\ res.code = exchange.status
                         /\ ~res.parsed
                /\ (~exchange.failed /\ exchange.status = 200)
                      => /\ res.parsed
                         /\ res.tag \in {"Left", "Right", "ParseError"}
                         /\ exchange.body = "answer" =>
                              res.tag = (IF type = "A" THEN "Left" ELSE "Right")]_vars

\* C19 witness: a query answered 204 yielded DohRequestBadStatus(204) without
\* parsing the body, which would have parsed.
C19_Witness ==
    \E i \in 1 .. Len(doh.tasks) :
       /\ doh.tasks[i].pc = "done"
       /\ doh.op = "respond"
       /\ ~doh.tasks[i].exchange.failed
       /\ doh.tasks[i].exchange.status = 204
       /\ doh.tasks[i].exchange.body = "answer"
       /\ doh.tasks[i].result.tag = "DohRequestBadStatus"
       /\ doh.tasks[i].result.code = 204

\* ================================================ Purpose as text and tag
\* The largest value of the repr(u8) tag.
U8Max == 255

DeviceTransferUnderscore ==
    <<"d", "e", "v", "i", "c", "e", "_", "t", "r", "a", "n", "s", "f", "e", "r">>
DeviceTransferHyphen ==
    <<"d", "e", "v", "i", "c", "e", "-", "t", "r", "a", "n", "s", "f", "e", "r">>
Transfer ==
    <<"t", "r", "a", "n", "s", "f", "e", "r">>
RemoteBackupUnderscore ==
    <<"r", "e", "m", "o", "t", "e", "_", "b", "a", "c", "k", "u", "p">>
RemoteBackupHyphen ==
    <<"r", "e", "m", "o", "t", "e", "-", "b", "a", "c", "k", "u", "p">>
Backup ==
    <<"b", "a", "c", "k", "u", "p">>

\* The strum(serialize = ...) attributes of each variant, in declared order.
Serializations ==
    [DeviceTransfer |-> <<DeviceTransferUnderscore, DeviceTransferHyphen, Transfer>>,
     RemoteBackup |-> <<RemoteBackupUnderscore, RemoteBackupHyphen, Backup>>]

Variants == {"DeviceTransfer", "RemoteBackup"}

\* strum::EnumString: FromStr matches the text against every serialization
\* of every variant, byte for byte.
FromStr(text) ==
    IF \E i \in 1 .. Len(Serializations.DeviceTransfer) : Serializations.DeviceTransfer[i] = text
    THEN Some("DeviceTransfer")
    ELSE IF \E i \in 1 .. Len(Serializations.RemoteBackup) : Serializations.RemoteBackup[i] = text
    THEN Some("RemoteBackup")
    ELSE None

\* strum's preferred name of a variant without a to_string attribute: the
\* longest serialization, the last declared one among the longest.
PreferredName(names) ==
    names[CHOOSE i \in 1 .. Len(names) :
            /\ \A j \in 1 .. Len(names) : Len(names[j]) <= Len(names[i])
            /\ \A j \in i + 1 .. Len(names) : Len(names[j]) < Len(names[i])]

\* strum::Display: to_string writes the preferred name.
to_string(purpose) == PreferredName(Serializations[purpose])

\* num_enum::TryFromPrimitive on the repr(u8) discriminants.
TryFromPrimitive(tag) ==
    CASE tag = 0 -> Some("DeviceTransfer")
      [] tag = 1 -> Some("RemoteBackup")
      [] OTHER -> None

\* Texts handed to the parser: the six spellings, spellings in another case,
\* the variant names, and other text.
PurposeTexts ==
    {DeviceTransferUnderscore, DeviceTransferHyphen, Transfer,
     RemoteBackupUnderscore, RemoteBackupHyphen, Backup,
     <<"D", "e", "v", "i", "c", "e", "_", "T", "r", "a", "n", "s", "f", "e", "r">>,
     <<"B", "A", "C", "K", "U", "P">>,
     <<"D", "e", "v", "i", "c", "e", "T", "r", "a", "n", "s", "f", "e", "r">>,
     <<"R", "e", "m", "o", "t", "e", "B", "a", "c", "k", "u", "p">>,
     <<"d", "e", "v", "i", "c", "e", " ", "t", "r", "a", "n", "s", "f", "e", "r">>,
     <<>>}

InitPurpose ==
    /\ pur = [op |-> "new", text |-> <<>>, tag |-> 0, purpose |-> None, reparsed |-> None]
    /\ pb = Idle /\ frame = Idle /\ handler = Idle /\ result = Idle
    /\ arrival = Idle /\ accepted = Idle /\ nAccount = Idle /\ limit = Idle /\ refused = Idle
    /\ net = Idle /\ push = Idle /\ doh = Idle

\* text.parse::<Purpose>()
PurposeFromStr ==
    /\ \E text \in PurposeTexts :
         pur' = [op |-> "from_str", text |-> text, tag |-> 0,
                 purpose |-> FromStr(text), reparsed |-> None]
    /\ UNCHANGED <<pb, frame, handler, result, arrival, accepted, nAccount, limit, refused, net, push, doh>>

\* purpose.to_string(), and the text parsed back.
PurposeToString ==
    /\ \E purpose \in Variants :
         pur' = [op |-> "to_string", text |-> to_string(purpose), tag |-> 0,
                 purpose |-> Some(purpose), reparsed |-> FromStr(to_string(purpose))]
    /\ UNCHANGED <<pb, frame, handler, result, arrival, accepted, nAccount, limit, refused, net, push, doh>>

\* Purpose::try_from(tag)
PurposeTryFrom ==
    /\ \E tag \in 0 .. U8Max :
         pur' = [op |-> "try_from", text |-> <<>>, tag |-> tag,
                 purpose |-> TryFromPrimitive(tag), reparsed |-> None]
    /\ UNCHANGED <<pb, frame, handler, result, arrival, accepted, nAccount, limit, refused, net, push, doh>>

NextPurpose ==
    \/ PurposeFromStr
    \/ PurposeToString
    \/ PurposeTryFrom

SpecPurpose == InitPurpose /\ [][NextPurpose]_vars

\* C20: parsing accepts exactly device_transfer, device-transfer and transfer
\* for DeviceTransfer and remote_backup, remote-backup and backup for
\* RemoteBackup, in that case only; serialization writes device_transfer for
\* DeviceTransfer and remote_backup for RemoteBackup; a serialized purpose
\* parses back to itself.
C20_PurposeStrings ==
    [][/\ pur'.op = "from_str" =>
            pur'.purpose =
               (IF pur'.text \in {DeviceTransferUnderscore, DeviceTransferHyphen, Transfer}
                THEN Some("DeviceTransfer")
                ELSE IF pur'.text \in {RemoteBackupUnderscore, RemoteBackupHyphen, Backup}
                THEN Some("RemoteBackup")
                ELSE None)
       /\ pur'.op = "to_string" =>
            /\ pur'.purpose = Some("DeviceTransfer") => pur'.text = DeviceTransferUnderscore
            /\ pur'.purpose = Some("RemoteBackup") => pur'.text = RemoteBackupUnderscore
            /\ pur'.reparsed = pur'.purpose]_vars

====
